---- MODULE Spec2Model ----
(***************************************************************************)
(* Budget-tracker payment backend: the payment-verification and            *)
(* budget-ledger pipeline of the API server (src/unnamed/part_000) and of  *)
(* its sibling servers (src/budget-tracker-pure-api.js,                    *)
(* src/razorpay-render-deploy/server.js, src/unnamed/part_002).            *)
(*                                                                         *)
(* Amounts are integers counted in thousandths of the major currency unit  *)
(* (1 rupee = 1000, 1 paise = 10), so that amount * 100, Math.round and    *)
(* amount / 100 are real conversions.  A JavaScript number is a record     *)
(* [nan, v]; NaN absorbs every addition.                                   *)
(***************************************************************************)
EXTENDS Integers, Sequences, FiniteSets, TLC

VARIABLES
    server,     \* which server file is running (fixed along a behaviour)
    webhookEnv, \* process.env.RAZORPAY_WEBHOOK_SECRET ("" when not set)
    nodeEnv,    \* process.env.NODE_ENV
    users,      \* budgetData.users: userId -> user record
    budgets,    \* budgetData.budgets: userId -> budget record
    payments,   \* budgetData.payments: the global payments log
    analytics,  \* budgetData.analytics
    saved,      \* the snapshot last written by saveData()
    orders,     \* the gateway's orders: orderId -> order made by create-order
    inflight,   \* create-order requests suspended in `await razorpay.orders.create`
    now,        \* the wall clock (Date.now()), in ticks
    last        \* the request handled last and the response it got

vars == <<server, webhookEnv, nodeEnv, users, budgets, payments, analytics,
          saved, orders, inflight, now, last>>

-----------------------------------------------------------------------------
(* Bounds of the model *)

\* most transactions recorded in one run (length of the payments log)
MaxTxns == 2
\* most ticks of the wall clock
MaxClock == 1
\* most create-order requests suspended at the gateway at once
MaxInflight == 1

-----------------------------------------------------------------------------
(* JavaScript values *)

Num(n) == [nan |-> FALSE, v |-> n]
NaN == [nan |-> TRUE, v |-> 0]

\* a + b on JavaScript numbers
Add(a, b) == IF a.nan \/ b.nan THEN NaN ELSE Num(a.v + b.v)

\* a JSON value in an amount position: absent, a number, or a non-numeric string
AbsentVal == [kind |-> "absent", v |-> 0]
NumVal(n) == [kind |-> "num", v |-> n]
StrVal == [kind |-> "str", v |-> 0]

\* !x for such a value: undefined, 0 and NaN are falsy, a non-empty string is truthy
Falsy(x) == x.kind = "absent" \/ (x.kind = "num" /\ x.v = 0)

\* a comparison with 0 that no amount fails
LeqZeroNever(x) == FALSE

\* x <= 0 after numeric coercion (false for NaN)
LeqZero(x) == x.kind = "num" /\ x.v <= 0

\* parseFloat(x): NaN for undefined and for a string holding no number
ParseFloat(x) == IF x.kind = "num" THEN Num(x.v) ELSE NaN

\* category || 'Other'  ("" stands for an absent or empty category)
OrDefault(s, d) == IF s = "" THEN d ELSE s

\* crypto.createHmac('sha256', secret).update(msg).digest('hex')
Hmac(secret, msg) == <<"hmac-sha256", secret, msg>>

\* razorpay_order_id + '|' + razorpay_payment_id
SignedMessage(orderId, paymentId) == orderId \o "|" \o paymentId

\* the key secret read from the credentials file
RAZORPAY_KEY_SECRET == "key_secret"

\* process.env.RAZORPAY_WEBHOOK_SECRET || 'your_webhook_secret'
WebhookSecret == IF webhookEnv = "" THEN "your_webhook_secret" ELSE webhookEnv

-----------------------------------------------------------------------------
(* The store *)

\* the user object literal of POST /api/users
NewUser(t) == [totalSpent |-> Num(0), transactions |-> <<>>, lastActive |-> <<t>>]

\* the user object literal of create-order and verify-payment: no lastActive
BareUser == [totalSpent |-> Num(0), transactions |-> <<>>, lastActive |-> <<>>]

\* the default monthly limit, 10000 rupees
DefaultMonthly == 10000 * 1000

Store == [users |-> users, budgets |-> budgets, payments |-> payments,
          analytics |-> analytics]

StoreAfter == [users |-> users', budgets |-> budgets', payments |-> payments',
               analytics |-> analytics']

\* saveData(): write the whole store as it is at the end of the step
saveData == saved' = StoreAfter

\* property names every plain object inherits from Object.prototype: the
\* lookup obj[key] of such a name is truthy although obj holds no such key
PrototypeKeys == {"constructor"}

\* a lookup that finds nobody
UserNeverFound(userId) == FALSE

\* budgetData.users[userId] is truthy
UserFound(userId) == userId \in DOMAIN users \/ userId \in PrototypeKeys

\* an assignment that writes the value under every key of the object
PutUnderEveryKey(obj, key, value) == [k \in DOMAIN obj \cup {key} |-> value]

\* obj[key] = value on a JavaScript object
Put(obj, key, value) == [k \in DOMAIN obj \cup {key} |-> IF k = key THEN value ELSE obj[k]]

\* the request handled last and its response: the endpoint, the status code, the
\* error text and the body; the user, payment and event named by the request are
\* kept for the requests that passed validation, the payment also for a
\* confirmation whose signature was refused
Response(op, status, error, userId, payId, event, body) ==
    [op |-> op, status |-> status, error |-> error,
     userId |-> userId, payId |-> payId, event |-> event, body |-> body]

NoBody == <<>>

\* an absent or empty signature
NoSig == <<>>

\* return res.status(...).json(...) before anything was changed
Reply(r) ==
    /\ last' = r
    /\ UNCHANGED <<users, budgets, payments, analytics, saved, orders, inflight>>

\* number of transactions held by the users' lists
RECURSIVE CountTxns(_, _)
CountTxns(us, ids) ==
    IF ids = {} THEN 0
    ELSE LET u == CHOOSE x \in ids : TRUE
         IN Len(us[u].transactions) + CountTxns(us, ids \ {u})

TxnCount == CountTxns(users, DOMAIN users)

-----------------------------------------------------------------------------
(* The API server, src/unnamed/part_000 *)

\* POST /api/users {userId, initialBudget = 10000}
ApiCreateUser(userId, initialBudget) ==
    /\ server = "api"
    /\ IF userId = ""
       THEN Reply(Response("users", 400, "UserId is required", "", "", "", NoBody))
       ELSE IF UserFound(userId)
       THEN Reply(Response("users", 409, "User already exists", userId, "", "", NoBody))
       ELSE /\ users' = Put(users, userId, NewUser(now))
            /\ budgets' = Put(budgets, userId,
                    [monthly |-> IF initialBudget.kind = "absent"
                                 THEN NumVal(DefaultMonthly) ELSE initialBudget])
            /\ analytics' = [analytics EXCEPT !.totalUsers = @ + 1]
            /\ UNCHANGED <<payments, orders, inflight>>
            /\ saveData
            /\ last' = Response("users", 200, "", userId, "", "", NoBody)
    /\ UNCHANGED <<server, webhookEnv, nodeEnv, now>>

\* Date.now().toString() at tick t of the clock: thirteen digits
TimestampString(t) == "170000000000" \o ToString(t)

\* str.slice(-n): the last n characters, the whole string when it is shorter
LastChars(str, n) ==
    IF Len(str) <= n THEN str ELSE SubSeq(str, Len(str) - n + 1, Len(str))

\* `rcpt_${shortUserId}_${shortTimestamp}` with userId.slice(-10) and
\* Date.now().toString().slice(-8)
Receipt(userId, t) ==
    "rcpt_" \o LastChars(userId, 10) \o "_" \o LastChars(TimestampString(t), 8)

\* Math.round(amount * 100): rupees to paise, halves rounded up
ToPaise(amount) ==
    IF amount.kind = "num" THEN Num((amount.v + 5) \div 10) ELSE NaN

\* POST /api/create-order, up to `await razorpay.orders.create(orderOptions)`
ApiCreateOrder(amount, userId, category) ==
    /\ server = "api"
    /\ IF Falsy(amount) \/ LeqZero(amount)
       THEN Reply(Response("create-order", 400, "Valid amount is required", "", "", "", NoBody))
       ELSE IF userId = ""
       THEN Reply(Response("create-order", 400, "UserId is required", "", "", "", NoBody))
       ELSE /\ Cardinality(inflight) < MaxInflight
            /\ users' = IF UserFound(userId) THEN users
                        ELSE Put(users, userId, BareUser)
            /\ inflight' = inflight \cup
                    {[userId |-> userId, amount |-> ToPaise(amount),
                      category |-> OrDefault(category, "Other"),
                      receipt |-> Receipt(userId, now)]}
            /\ last' = Response("create-order", 0, "", userId, "", "", NoBody)
            /\ UNCHANGED <<budgets, payments, analytics, saved, orders>>
    /\ UNCHANGED <<server, webhookEnv, nodeEnv, now>>

\* the gateway answers a suspended create-order with a new order: res.json(...)
ApiOrderCreated(req, orderId) ==
    /\ server = "api"
    /\ req \in inflight
    /\ ~req.amount.nan
    /\ orderId \notin DOMAIN orders
    /\ inflight' = inflight \ {req}
    /\ orders' = Put(orders, orderId, req)
    /\ last' = Response("create-order", 200, "", req.userId, "", "", [orderId |-> orderId])
    /\ UNCHANGED <<users, budgets, payments, analytics, saved>>
    /\ UNCHANGED <<server, webhookEnv, nodeEnv, now>>

\* the gateway call throws: the catch block answers 500 with error.message
ApiOrderFailed(req) ==
    /\ server = "api"
    /\ req \in inflight
    /\ inflight' = inflight \ {req}
    /\ last' = Response("create-order", 500, "Failed to create payment order",
                        req.userId, "", "", [details |-> "error.message"])
    /\ UNCHANGED <<users, budgets, payments, analytics, saved, orders>>
    /\ UNCHANGED <<server, webhookEnv, nodeEnv, now>>

\* a comparison that lets every signature through
SignatureNeverMismatches(orderId, paymentId, signature) == FALSE

\* generated_signature !== razorpay_signature, the generated one being the
\* HMAC-SHA256 of orderId|paymentId under the key secret
SignatureMismatch(orderId, paymentId, signature) ==
    Hmac(RAZORPAY_KEY_SECRET, SignedMessage(orderId, paymentId)) # signature

\* the transaction object literal of verify-payment
VerifiedTransaction(orderId, paymentId, amount, category, t) ==
    [id |-> paymentId, orderId |-> orderId, amount |-> amount,
     category |-> OrDefault(category, "Other"), date |-> t,
     status |-> "success", method |-> "razorpay"]

\* a log entry that loses the user
LogEntryWithoutUser(txn, userId) ==
    [id |-> txn.id, orderId |-> txn.orderId, amount |-> txn.amount,
     category |-> txn.category, date |-> txn.date, status |-> txn.status,
     method |-> txn.method, userId |-> ""]

\* {...transaction, userId}
LogEntry(txn, userId) ==
    [id |-> txn.id, orderId |-> txn.orderId, amount |-> txn.amount,
     category |-> txn.category, date |-> txn.date, status |-> txn.status,
     method |-> txn.method, userId |-> userId]

\* a recording that appends the transaction and forgets the running total
SpendWithoutTotal(user, txn) ==
    [user EXCEPT !.transactions = Append(@, txn)]

\* a recording that works on a stale, empty copy of the list
SpendOnStaleList(user, txn) ==
    [user EXCEPT !.totalSpent = Add(@, txn.amount),
                 !.transactions = <<txn>>]

\* user.totalSpent += transaction.amount; user.transactions.push(transaction)
Spend(user, txn) ==
    [user EXCEPT !.totalSpent = Add(@, txn.amount),
                 !.transactions = Append(@, txn)]

\* POST /api/verify-payment
ApiVerifyPayment(orderId, paymentId, signature, userId, amount, category) ==
    /\ server = "api"
    /\ IF orderId = "" \/ paymentId = "" \/ signature = NoSig \/ userId = ""
       THEN Reply(Response("verify-payment", 400,
                  "Missing required payment verification data", "", "", "", NoBody))
       ELSE IF SignatureMismatch(orderId, paymentId, signature)
       THEN Reply(Response("verify-payment", 400,
                  "Payment verification failed - Invalid signature", "", paymentId, "",
                  NoBody))
       ELSE IF userId \in PrototypeKeys \ DOMAIN users
       THEN Reply(Response("verify-payment", 500,
                  "Internal server error during payment verification", "", "", "",
                  [details |-> "error.message"]))
       ELSE LET user == IF userId \in DOMAIN users THEN users[userId] ELSE BareUser
                txn == VerifiedTransaction(orderId, paymentId, ParseFloat(amount), category, now)
            IN /\ TxnCount < MaxTxns
               /\ users' = Put(users, userId,
                               [Spend(user, txn) EXCEPT !.lastActive = <<now>>])
               /\ payments' = Append(payments, LogEntry(txn, userId))
               /\ analytics' = [analytics EXCEPT
                                   !.totalTransactions = @ + 1,
                                   !.totalAmount = Add(@, txn.amount)]
               /\ UNCHANGED <<budgets, orders, inflight>>
               /\ saveData
               /\ last' = Response("verify-payment", 200, "", userId, paymentId, "",
                                   [transaction |-> txn])
    /\ UNCHANGED <<server, webhookEnv, nodeEnv, now>>

\* user.transactions.find(t => t.id === payment.id)
HasTransaction(txns, id) == \E i \in 1..Len(txns) : txns[i].id = id

\* a transaction whose amount is the number of paise, read as rupees
CapturedTransactionInPaise(payment) ==
    [id |-> payment.id, orderId |-> payment.order_id,
     amount |-> Num(payment.amount * 1000),
     category |-> OrDefault(payment.category, "Other"),
     date |-> payment.created_at.v,
     status |-> "captured", method |-> "razorpay_webhook"]

\* the transaction object literal of handlePaymentCaptured; amount / 100 turns
\* paise into rupees, created_at (seconds) * 1000 is the date
CapturedTransaction(payment) ==
    [id |-> payment.id, orderId |-> payment.order_id,
     amount |-> Num(payment.amount * 10),
     category |-> OrDefault(payment.category, "Other"),
     date |-> payment.created_at.v,
     status |-> "captured", method |-> "razorpay_webhook"]

\* handlePaymentCaptured without its search for an existing transaction
CapturedOutcomeNoSearch(payment) ==
    IF payment.userId = "" THEN "return"
    ELSE IF ~UserFound(payment.userId) THEN "return"
    ELSE IF payment.userId \notin DOMAIN users THEN "throw"
    ELSE IF payment.created_at.kind # "num" THEN "throw"
    ELSE "record"

\* what handlePaymentCaptured(payment) does: "return" (one of its early
\* returns), "throw" (transactions.find on an inherited property, toISOString
\* of an invalid date) or "record"
CapturedOutcome(payment) ==
    IF payment.userId = "" THEN "return"
    ELSE IF ~UserFound(payment.userId) THEN "return"
    ELSE IF payment.userId \notin DOMAIN users THEN "throw"
    ELSE IF HasTransaction(users[payment.userId].transactions, payment.id) THEN "return"
    ELSE IF payment.created_at.kind # "num" THEN "throw"
    ELSE "record"

\* a switch in which payment.failed is handled like payment.captured
RecordsEveryPaymentEvent(event) == event \in {"payment.captured", "payment.failed"}

\* the one case of switch (event) whose handler writes: handlePaymentCaptured
RecordsEvent(event) == event = "payment.captured"

\* the statements of POST /api/webhook that can throw before or in the switch
WebhookThrows(body) ==
    \/ body.shape = "none"
    \/ body.event \in {"payment.captured", "payment.failed"} /\ body.shape # "payment"
    \/ body.event = "order.paid" /\ body.shape # "order"
    \/ body.event = "payment.captured" /\ CapturedOutcome(body.payment) = "throw"

\* POST /api/webhook with handlePaymentCaptured, handlePaymentFailed, handleOrderPaid
ApiWebhook(body, signature) ==
    /\ server = "api"
    /\ LET payId == IF body.shape = "payment" THEN body.payment.id ELSE ""
           userId == IF body.shape = "payment" THEN body.payment.userId ELSE ""
       IN IF signature # Hmac(WebhookSecret, body)
          THEN Reply(Response("webhook", 400, "Invalid signature", "", "", "", NoBody))
          ELSE IF WebhookThrows(body)
          THEN Reply(Response("webhook", 500, "Webhook processing error", "", "", "", NoBody))
          ELSE IF RecordsEvent(body.event) /\ CapturedOutcome(body.payment) = "record"
          THEN LET txn == CapturedTransaction(body.payment)
               IN /\ TxnCount < MaxTxns
                  /\ users' = [users EXCEPT ![userId] = Spend(@, txn)]
                  /\ payments' = Append(payments, LogEntry(txn, userId))
                  /\ UNCHANGED <<budgets, analytics, orders, inflight>>
                  /\ saveData
                  /\ last' = Response("webhook", 200, "", userId, payId, body.event, NoBody)
          ELSE Reply(Response("webhook", 200, "", userId, payId, body.event, NoBody))
    /\ UNCHANGED <<server, webhookEnv, nodeEnv, now>>

\* POST /api/set-budget {userId, monthlyLimit}
ApiSetBudget(userId, monthlyLimit) ==
    /\ server = "api"
    /\ IF userId = ""
       THEN Reply(Response("set-budget", 400, "UserId is required", "", "", "", NoBody))
       ELSE IF Falsy(monthlyLimit) \/ LeqZero(monthlyLimit)
       THEN Reply(Response("set-budget", 400, "Valid monthly limit is required", "", "", "", NoBody))
       ELSE /\ budgets' = Put(budgets, userId, [monthly |-> monthlyLimit])
            /\ UNCHANGED <<users, payments, analytics, orders, inflight>>
            /\ saveData
            /\ last' = Response("set-budget", 200, "", userId, "", "", NoBody)
    /\ UNCHANGED <<server, webhookEnv, nodeEnv, now>>

\* time passes
Tick ==
    /\ now < MaxClock
    /\ now' = now + 1
    /\ UNCHANGED <<server, webhookEnv, nodeEnv, users, budgets, payments,
                   analytics, saved, orders, inflight, last>>

-----------------------------------------------------------------------------
(* GET /api/transactions/:userId *)

\* the `limit = 50` default of the query destructuring
DefaultLimit == 50

\* parseInt of a query parameter, after its default was applied
ParseInt(x, default) ==
    IF x.kind = "absent" THEN Num(default)
    ELSE IF x.kind = "num" THEN Num(x.v) ELSE NaN

\* x || d on a number: NaN and 0 give d
OrNum(x, d) == IF x.nan \/ x.v = 0 THEN Num(d) ELSE x

\* transactions.filter(t => t.category === category), skipped without a category or for 'all'
FilterBy(txns, field, wanted) ==
    IF wanted = "" \/ wanted = "all" THEN txns
    ELSE SelectSeq(txns, LAMBDA t : t[field] = wanted)

\* an insertion that puts t in front of the elements of its own date
RECURSIVE InsertByDateUnstable(_, _)
InsertByDateUnstable(sorted, t) ==
    IF sorted = <<>> THEN <<t>>
    ELSE IF Head(sorted).date > t.date
         THEN <<Head(sorted)>> \o InsertByDateUnstable(Tail(sorted), t)
         ELSE <<t>> \o sorted

\* insert t behind every element that is not older than it
RECURSIVE InsertByDate(_, _)
InsertByDate(sorted, t) ==
    IF sorted = <<>> THEN <<t>>
    ELSE IF Head(sorted).date >= t.date
         THEN <<Head(sorted)>> \o InsertByDate(Tail(sorted), t)
         ELSE <<t>> \o sorted

\* transactions.sort((a, b) => new Date(b.date) - new Date(a.date)): stable, newest first
RECURSIVE SortNewestFirst(_)
SortNewestFirst(txns) ==
    IF txns = <<>> THEN <<>>
    ELSE InsertByDate(SortNewestFirst(SubSeq(txns, 1, Len(txns) - 1)), txns[Len(txns)])

\* the relative index of Array.prototype.slice: NaN is 0, a negative index counts from the end
SliceIndex(k, len) ==
    IF k.nan THEN 0
    ELSE IF k.v < 0 THEN (IF len + k.v < 0 THEN 0 ELSE len + k.v)
    ELSE IF k.v > len THEN len ELSE k.v

\* array.slice(start, end)
Slice(arr, start, end) ==
    LET s == SliceIndex(start, Len(arr))
        e == SliceIndex(end, Len(arr))
    IN IF s >= e THEN <<>> ELSE SubSeq(arr, s + 1, e)

\* the filter, sort and pagination of the handler; startIndex and limitNum parsed by the caller
Listing(txns, startIndex, limitNum, category, status) ==
    LET matching == SortNewestFirst(FilterBy(FilterBy(txns, "category", category), "status", status))
        endIndex == Add(startIndex, limitNum)
    IN [transactions |-> Slice(matching, startIndex, endIndex),
        total |-> Len(matching),
        limit |-> limitNum,
        offset |-> startIndex,
        hasMore |-> (~endIndex.nan /\ endIndex.v < Len(matching))]

\* GET /api/transactions/:userId of the API server
ApiGetTransactions(userId, limit, offset, category, status) ==
    /\ server = "api"
    /\ IF ~UserFound(userId)
       THEN Reply(Response("transactions", 404, "User not found", "", "", "", NoBody))
       ELSE IF userId \notin DOMAIN users
       THEN Reply(Response("transactions", 500, "Failed to fetch transactions", "", "", "",
                           [details |-> "error.message"]))
       ELSE Reply(Response("transactions", 200, "", userId, "", "",
                  Listing(users[userId].transactions, ParseInt(offset, 0),
                          ParseInt(limit, DefaultLimit), category, status)))
    /\ UNCHANGED <<server, webhookEnv, nodeEnv, now>>

-----------------------------------------------------------------------------
(* Requests *)

UserIds == {"u1", "u2"}
PaymentIds == {"pay_1", "pay_2"}
OrderIds == {"order_1"}

\* the signatures a client can send for (orderId, paymentId): none, the
\* gateway's, or one made without the key secret
ClientSignatures(orderId, paymentId) ==
    {NoSig,
     Hmac(RAZORPAY_KEY_SECRET, SignedMessage(orderId, paymentId)),
     Hmac("guess", SignedMessage(orderId, paymentId))}

\* the x-razorpay-signature headers a sender can put on a body
WebhookSignatures(body) ==
    {NoSig, Hmac(WebhookSecret, body), Hmac("guess", body)}

\* payload.payment.entity
PaymentEntity(id, orderId, paise, userId, category, createdAt) ==
    [id |-> id, order_id |-> orderId, amount |-> paise, userId |-> userId,
     category |-> category, created_at |-> createdAt]

NoEntity == PaymentEntity("", "", 0, "", "", AbsentVal)

\* a webhook body: the event name and the shape of its payload
WebhookBody(event, shape, payment) ==
    [event |-> event, shape |-> shape,
     payment |-> IF shape = "payment" THEN payment ELSE NoEntity]

Events == {"payment.captured", "payment.failed", "order.paid", "refund.created"}
Shapes == {"none", "empty", "payment", "order"}

-----------------------------------------------------------------------------
(* The API server as a state machine *)

EmptyStore == [users |-> <<>>, budgets |-> <<>>, payments |-> <<>>,
               analytics |-> [totalUsers |-> 0, totalTransactions |-> 0,
                              totalAmount |-> Num(0)]]

Fresh ==
    /\ users = EmptyStore.users
    /\ budgets = EmptyStore.budgets
    /\ payments = EmptyStore.payments
    /\ analytics = EmptyStore.analytics
    /\ saved = EmptyStore
    /\ orders = <<>>
    /\ inflight = {}
    /\ now = 0
    /\ last = Response("listen", 0, "", "", "", "", NoBody)

Init ==
    /\ server = "api"
    /\ webhookEnv = "whsec_1"
    /\ nodeEnv = "production"
    /\ Fresh

\* the verify-payment requests of the model: well-formed ones for every
\* payment, user and amount, and one of each malformed kind
VerifyRequest(o, p, sig, u, a, c) ==
    [orderId |-> o, paymentId |-> p, signature |-> sig, userId |-> u,
     amount |-> a, category |-> c]

ValidSignature(o, p) == Hmac(RAZORPAY_KEY_SECRET, SignedMessage(o, p))

VerifyRequests ==
    {VerifyRequest("order_1", p, ValidSignature("order_1", p), u, NumVal(500000), "") :
        p \in PaymentIds, u \in UserIds}
    \cup {VerifyRequest("order_1", "pay_2", ValidSignature("order_1", "pay_2"), "u2", AbsentVal, "")}
    \cup {VerifyRequest("", "pay_1", ValidSignature("", "pay_1"), "u1", NumVal(500000), ""),
          VerifyRequest("order_1", "", ValidSignature("order_1", ""), "u1", NumVal(500000), ""),
          VerifyRequest("order_1", "pay_1", ValidSignature("order_1", "pay_1"), "", NumVal(500000), "")}
    \cup {VerifyRequest("order_1", "pay_1", sig, u, NumVal(500000), "") :
            sig \in {NoSig, Hmac("guess", SignedMessage("order_1", "pay_1")),
                     ValidSignature("order_1", "pay_2")},
            u \in {"u1"}}

\* the webhook bodies of the model
WebhookBodies ==
    {WebhookBody("payment.captured", "payment", PaymentEntity(p, "order_1", 50000, u, "", c)) :
        p \in PaymentIds, u \in UserIds \cup {""}, c \in {NumVal(0)}}
    \cup {WebhookBody("payment.captured", "payment",
                      PaymentEntity("pay_1", "order_1", 50000, "u1", "", AbsentVal))}
    \cup {WebhookBody(e, "payment", PaymentEntity("pay_1", "order_1", 50000, "u1", "", NumVal(0))) :
            e \in Events}
    \cup {WebhookBody(e, sh, NoEntity) : e \in Events, sh \in {"none", "empty", "order"}}

\* a webhook delivery: the gateway signs every body; a sender without the
\* secret sends one body unsigned and one with a guessed signature
WebhookRequests ==
    {[body |-> b, signature |-> Hmac(WebhookSecret, b)] : b \in WebhookBodies}
    \cup {[body |-> WebhookBody("refund.created", "empty", NoEntity), signature |-> NoSig],
          [body |-> WebhookBody("refund.created", "empty", NoEntity),
           signature |-> Hmac("guess", WebhookBody("refund.created", "empty", NoEntity))],
          [body |-> WebhookBody("payment.captured", "payment",
                                PaymentEntity("pay_1", "order_1", 50000, "u1", "", NumVal(0))),
           signature |-> NoSig]}

Next ==
    \/ \E u \in {"", "u1"} : ApiCreateUser(u, AbsentVal)
    \/ \E r \in {<<AbsentVal, "u2">>, <<NumVal(500000), "">>, <<NumVal(500000), "u2">>} :
          ApiCreateOrder(r[1], r[2], "")
    \/ \E req \in inflight, o \in OrderIds : ApiOrderCreated(req, o)
    \/ \E req \in inflight : ApiOrderFailed(req)
    \/ \E r \in VerifyRequests :
          ApiVerifyPayment(r.orderId, r.paymentId, r.signature, r.userId, r.amount, r.category)
    \/ \E r \in WebhookRequests : ApiWebhook(r.body, r.signature)
    \/ \E r \in {<<"", NumVal(1000000)>>, <<"u1", NumVal(0)>>, <<"u1", NumVal(1000000)>>} :
          ApiSetBudget(r[1], r[2])

Spec == Init /\ [][Next]_vars

-----------------------------------------------------------------------------
(* The sibling servers *)

\* parseFloat(amount) || 0
ParseFloatOrZero(x) == IF ParseFloat(x).nan THEN Num(0) ELSE ParseFloat(x)

\* POST /api/verify-payment of src/budget-tracker-pure-api.js
PureVerifyPayment(orderId, paymentId, signature, userId, amount, category) ==
    /\ server = "pure"
    /\ IF orderId = "" \/ paymentId = "" \/ signature = NoSig
       THEN Reply(Response("verify-payment", 400,
                  "Missing required payment verification data", "", "", "", NoBody))
       ELSE IF userId = ""
       THEN Reply(Response("verify-payment", 400,
                  "UserId is required for payment verification", "", "", "", NoBody))
       ELSE IF SignatureMismatch(orderId, paymentId, signature)
       THEN Reply(Response("verify-payment", 400,
                  "Payment verification failed - Invalid signature", "", "", "", NoBody))
       ELSE IF userId \in PrototypeKeys \ DOMAIN users
       THEN Reply(Response("verify-payment", 500,
                  "Internal server error during payment verification", "", "", "",
                  [details |-> "error.message"]))
       ELSE LET user == IF userId \in DOMAIN users THEN users[userId] ELSE NewUser(now)
                txn == VerifiedTransaction(orderId, paymentId, ParseFloatOrZero(amount),
                                           category, now)
            IN /\ TxnCount < MaxTxns
               /\ users' = Put(users, userId,
                               [Spend(user, txn) EXCEPT !.lastActive = <<now>>])
               /\ payments' = Append(payments, LogEntry(txn, userId))
               /\ analytics' = [analytics EXCEPT
                                   !.totalTransactions = @ + 1,
                                   !.totalAmount = Add(@, txn.amount)]
               /\ UNCHANGED <<budgets, orders, inflight>>
               /\ saveData
               /\ last' = Response("verify-payment", 200, "", userId, paymentId, "",
                                   [transaction |-> txn])
    /\ UNCHANGED <<server, webhookEnv, nodeEnv, now>>

\* POST /api/webhook of src/budget-tracker-pure-api.js: the signature is
\* looked at only when a webhook secret is configured
PureWebhook(body, signature) ==
    /\ server = "pure"
    /\ IF WebhookSecret # "your_webhook_secret" /\ signature # Hmac(WebhookSecret, body)
       THEN Reply(Response("webhook", 400, "Invalid signature", "", "", "", NoBody))
       ELSE IF body.shape = "none"
       THEN Reply(Response("webhook", 500, "Webhook processing error", "", "", "", NoBody))
       ELSE Reply(Response("webhook", 200, "", "", "", body.event, NoBody))
    /\ UNCHANGED <<server, webhookEnv, nodeEnv, now>>

\* POST /api/verify-payment of src/razorpay-render-deploy/server.js
RenderVerifyPayment(orderId, paymentId, signature, userId, amount, category) ==
    /\ server = "render"
    /\ IF orderId = "" \/ paymentId = "" \/ signature = NoSig \/ userId = ""
       THEN Reply(Response("verify-payment", 400, "Missing required payment data",
                           "", "", "", NoBody))
       ELSE IF SignatureMismatch(orderId, paymentId, signature)
       THEN Reply(Response("verify-payment", 400, "Payment verification failed",
                           "", "", "", NoBody))
       ELSE IF userId \notin DOMAIN users
       THEN Reply(Response("verify-payment", 200, "", userId, paymentId, "",
                           [transaction |-> [id |-> paymentId, amount |-> ParseFloat(amount),
                                             status |-> "success"]]))
       ELSE LET amt == ParseFloatOrZero(amount)
                txn == [id |-> paymentId, orderId |-> orderId, amount |-> amt,
                        category |-> OrDefault(category, "Payment"), date |-> now,
                        status |-> "success", method |-> ""]
            IN /\ TxnCount < MaxTxns
               /\ users' = [users EXCEPT ![userId] = Spend(@, txn)]
               /\ payments' = Append(payments, LogEntry(txn, userId))
               /\ analytics' = [analytics EXCEPT
                                   !.totalTransactions = @ + 1,
                                   !.totalAmount = Add(@, amt)]
               /\ UNCHANGED <<budgets, saved, orders, inflight>>
               /\ last' = Response("verify-payment", 200, "", userId, paymentId, "",
                                   [transaction |-> [id |-> paymentId,
                                                     amount |-> ParseFloat(amount),
                                                     status |-> "success"]])
    /\ UNCHANGED <<server, webhookEnv, nodeEnv, now>>

\* POST /api/users of src/razorpay-render-deploy/server.js
RenderCreateUser(userId) ==
    /\ server = "render"
    /\ IF userId = ""
       THEN Reply(Response("users", 400, "UserId is required", "", "", "", NoBody))
       ELSE IF userId \in DOMAIN users
       THEN Reply(Response("users", 409, "User already exists", "", "", "", NoBody))
       ELSE /\ users' = Put(users, userId, BareUser)
            /\ analytics' = [analytics EXCEPT !.totalUsers = @ + 1]
            /\ UNCHANGED <<budgets, payments, saved, orders, inflight>>
            /\ last' = Response("users", 200, "", userId, "", "", NoBody)
    /\ UNCHANGED <<server, webhookEnv, nodeEnv, now>>

\* POST /api/webhook of src/razorpay-render-deploy/server.js: logs and answers
RenderWebhook(body, signature) ==
    /\ server = "render"
    /\ Reply(Response("webhook", 200, "", "", "", body.event, NoBody))
    /\ UNCHANGED <<server, webhookEnv, nodeEnv, now>>

\* POST /verify-payment of src/unnamed/part_002
LegacyVerifyPayment(orderId, paymentId, signature, userId, amount, category) ==
    /\ server = "legacy"
    /\ IF ~SignatureMismatch(orderId, paymentId, signature)
       THEN LET user == IF userId \in DOMAIN users THEN users[userId] ELSE BareUser
                txn == [id |-> paymentId, orderId |-> orderId,
                        amount |-> ParseFloat(amount),
                        category |-> OrDefault(category, "Other"), date |-> now,
                        status |-> "success", method |-> ""]
            IN /\ TxnCount < MaxTxns
               /\ users' = Put(users, userId, Spend(user, txn))
               /\ payments' = Append(payments, txn)
               /\ UNCHANGED <<budgets, analytics, orders, inflight>>
               /\ saveData
               /\ last' = Response("verify-payment", 200, "", userId, paymentId, "",
                                   [transaction |-> txn])
       ELSE Reply(Response("verify-payment", 400, "Payment verification failed",
                           "", "", "", NoBody))
    /\ UNCHANGED <<server, webhookEnv, nodeEnv, now>>

\* POST /webhook of src/unnamed/part_002: the secret is the literal
\* 'your_webhook_secret'; a body whose signature does not match is skipped
\* and answered 200 like the others
LegacyWebhook(body, signature) ==
    /\ server = "legacy"
    /\ IF signature # Hmac("your_webhook_secret", body)
       THEN Reply(Response("webhook", 200, "", "", "", "", NoBody))
       ELSE IF body.event \in {"payment.captured", "payment.failed"} /\ body.shape # "payment"
       THEN Reply(Response("webhook", 500, "Error", "", "", "", NoBody))
       ELSE IF body.event = "payment.captured"
       THEN LET payment == body.payment
                userId == OrDefault(payment.userId, "anonymous")
                user == IF userId \in DOMAIN users THEN users[userId] ELSE BareUser
                txn == [id |-> payment.id, orderId |-> "",
                        amount |-> Num(payment.amount * 10),
                        category |-> OrDefault(payment.category, "Other"),
                        date |-> now, status |-> "captured", method |-> ""]
            IN /\ TxnCount < MaxTxns
               /\ users' = Put(users, userId, Spend(user, txn))
               /\ UNCHANGED <<budgets, payments, analytics, orders, inflight>>
               /\ saveData
               /\ last' = Response("webhook", 200, "", userId, payment.id, body.event, NoBody)
       ELSE Reply(Response("webhook", 200, "", "", "", body.event, NoBody))
    /\ UNCHANGED <<server, webhookEnv, nodeEnv, now>>

\* POST /api/razorpay-webhook of the second server of src/budget-tracker-pure-api.js,
\* with its handlePaymentCaptured: amounts stay in paise, users have no totalSpent
AgentWebhook(body, signature) ==
    /\ server = "agent"
    /\ IF signature # Hmac(WebhookSecret, body)
       THEN Reply(Response("webhook", 400, "Invalid signature", "", "", "", NoBody))
       ELSE IF body.shape = "none"
               \/ (body.event \in {"payment.captured", "payment.failed"} /\ body.shape # "payment")
               \/ (body.event = "order.paid" /\ body.shape # "order")
       THEN Reply(Response("webhook", 500, "Webhook processing failed", "", "", "", NoBody))
       ELSE IF body.event = "payment.captured" /\ body.payment.userId # ""
       THEN LET payment == body.payment
                txn == [id |-> payment.id, orderId |-> payment.order_id,
                        amount |-> Num(payment.amount),
                        category |-> OrDefault(payment.category, "general"),
                        date |-> now, status |-> "captured", method |-> "webhook",
                        userId |-> payment.userId]
            IN /\ Len(payments) < MaxTxns
               /\ payments' = Append(payments, txn)
               /\ users' = IF payment.userId \in DOMAIN users
                           THEN [users EXCEPT ![payment.userId].transactions = Append(@, txn)]
                           ELSE users
               /\ UNCHANGED <<budgets, analytics, saved, orders, inflight>>
               /\ last' = Response("webhook", 200, "", payment.userId, payment.id,
                                   body.event, NoBody)
       ELSE Reply(Response("webhook", 200, "", "", "", body.event, NoBody))
    /\ UNCHANGED <<server, webhookEnv, nodeEnv, now>>

\* POST /api/users of src/budget-tracker-pure-api.js
PureCreateUser(userId, initialBudget) ==
    /\ server = "pure"
    /\ IF userId = ""
       THEN Reply(Response("users", 400, "Valid userId is required", "", "", "", NoBody))
       ELSE IF UserFound(userId)
       THEN Reply(Response("users", 409, "User already exists", userId, "", "", NoBody))
       ELSE /\ users' = Put(users, userId, NewUser(now))
            /\ budgets' = Put(budgets, userId,
                    [monthly |-> IF initialBudget.kind = "absent"
                                 THEN NumVal(DefaultMonthly) ELSE initialBudget])
            /\ analytics' = [analytics EXCEPT !.totalUsers = @ + 1]
            /\ UNCHANGED <<payments, orders, inflight>>
            /\ saveData
            /\ last' = Response("users", 200, "", userId, "", "", NoBody)
    /\ UNCHANGED <<server, webhookEnv, nodeEnv, now>>

\* POST /api/create-order of src/budget-tracker-pure-api.js, up to the await:
\* isNaN(amount) also rejects a non-numeric string, and the user created on the
\* way gets a default budget
PureCreateOrder(amount, userId, category) ==
    /\ server = "pure"
    /\ IF Falsy(amount) \/ amount.kind = "str" \/ LeqZero(amount)
       THEN Reply(Response("create-order", 400, "Valid amount is required", "", "", "", NoBody))
       ELSE IF userId = ""
       THEN Reply(Response("create-order", 400, "Valid userId is required", "", "", "", NoBody))
       ELSE /\ Cardinality(inflight) < MaxInflight
            /\ users' = IF UserFound(userId) THEN users
                        ELSE Put(users, userId, NewUser(now))
            /\ budgets' = IF UserFound(userId) THEN budgets
                          ELSE Put(budgets, userId, [monthly |-> NumVal(DefaultMonthly)])
            /\ inflight' = inflight \cup
                    {[userId |-> userId, amount |-> ToPaise(amount),
                      category |-> OrDefault(category, "Other"),
                      receipt |-> Receipt(userId, now)]}
            /\ last' = Response("create-order", 0, "", userId, "", "", NoBody)
            /\ UNCHANGED <<payments, analytics, saved, orders>>
    /\ UNCHANGED <<server, webhookEnv, nodeEnv, now>>

\* the gateway answers a suspended create-order of the pure server with a new order
PureOrderCreated(req, orderId) ==
    /\ server = "pure"
    /\ req \in inflight
    /\ ~req.amount.nan
    /\ orderId \notin DOMAIN orders
    /\ inflight' = inflight \ {req}
    /\ orders' = Put(orders, orderId, req)
    /\ last' = Response("create-order", 200, "", req.userId, "", "", [orderId |-> orderId])
    /\ UNCHANGED <<users, budgets, payments, analytics, saved>>
    /\ UNCHANGED <<server, webhookEnv, nodeEnv, now>>

\* the gateway call of the pure server throws: 500 with error.message
PureOrderFailed(req) ==
    /\ server = "pure"
    /\ req \in inflight
    /\ inflight' = inflight \ {req}
    /\ last' = Response("create-order", 500, "Failed to create payment order",
                        req.userId, "", "", [details |-> "error.message"])
    /\ UNCHANGED <<users, budgets, payments, analytics, saved, orders>>
    /\ UNCHANGED <<server, webhookEnv, nodeEnv, now>>

\* GET /api/transactions/:userId of src/budget-tracker-pure-api.js:
\* parseInt(offset) || 0 and parseInt(limit) || 50
PureGetTransactions(userId, limit, offset, category, status) ==
    /\ server = "pure"
    /\ IF userId = ""
       THEN Reply(Response("transactions", 400, "UserId parameter is required",
                           "", "", "", NoBody))
       ELSE IF ~UserFound(userId)
       THEN Reply(Response("transactions", 404, "User not found", "", "", "", NoBody))
       ELSE IF userId \notin DOMAIN users
       THEN Reply(Response("transactions", 500, "Failed to fetch transactions", "", "", "",
                           [details |-> "error.message"]))
       ELSE Reply(Response("transactions", 200, "", userId, "", "",
                  Listing(users[userId].transactions, OrNum(ParseInt(offset, 0), 0),
                          OrNum(ParseInt(limit, DefaultLimit), DefaultLimit),
                          category, status)))
    /\ UNCHANGED <<server, webhookEnv, nodeEnv, now>>

\* `rcpt_${userId}_${Date.now()}` of src/razorpay-render-deploy/server.js
RenderReceipt(userId, t) == "rcpt_" \o userId \o "_" \o TimestampString(t)

\* POST /api/create-order of src/razorpay-render-deploy/server.js, up to the await
RenderCreateOrder(amount, userId, category) ==
    /\ server = "render"
    /\ IF Falsy(amount) \/ userId = ""
       THEN Reply(Response("create-order", 400, "Amount and userId are required",
                           "", "", "", NoBody))
       ELSE /\ Cardinality(inflight) < MaxInflight
            /\ users' = IF UserFound(userId) THEN users
                        ELSE Put(users, userId, BareUser)
            /\ inflight' = inflight \cup
                    {[userId |-> userId, amount |-> ToPaise(amount),
                      category |-> category,
                      receipt |-> RenderReceipt(userId, now)]}
            /\ last' = Response("create-order", 0, "", userId, "", "", NoBody)
            /\ UNCHANGED <<budgets, payments, analytics, saved, orders>>
    /\ UNCHANGED <<server, webhookEnv, nodeEnv, now>>

\* `amount: amount` of the second server of src/budget-tracker-pure-api.js:
\* the number of the request is the number of paise (whole numbers here)
AsPaise(amount) ==
    IF amount.kind = "num" THEN Num(amount.v \div 1000) ELSE NaN

\* `budget_${userId}_${Date.now()}` of the second server of src/budget-tracker-pure-api.js
AgentReceipt(userId, t) == "budget_" \o userId \o "_" \o TimestampString(t)

\* POST /api/create-order of the second server of src/budget-tracker-pure-api.js,
\* up to the await: the amount is taken as paise, the user created on the way
\* has a transaction list and no total
AgentCreateOrder(amount, userId, category) ==
    /\ server = "agent"
    /\ IF Falsy(amount) \/ userId = ""
       THEN Reply(Response("create-order", 400, "Amount and userId are required",
                           "", "", "", NoBody))
       ELSE /\ Cardinality(inflight) < MaxInflight
            /\ users' = IF UserFound(userId) THEN users
                        ELSE Put(users, userId, BareUser)
            /\ inflight' = inflight \cup
                    {[userId |-> userId, amount |-> AsPaise(amount),
                      category |-> OrDefault(category, "general"),
                      receipt |-> AgentReceipt(userId, now)]}
            /\ last' = Response("create-order", 0, "", userId, "", "", NoBody)
            /\ UNCHANGED <<budgets, payments, analytics, saved, orders>>
    /\ UNCHANGED <<server, webhookEnv, nodeEnv, now>>

\* the gateway answers a suspended create-order of one of these two servers
SiblingOrderCreated(req, orderId) ==
    /\ server \in {"render", "agent"}
    /\ req \in inflight
    /\ ~req.amount.nan
    /\ orderId \notin DOMAIN orders
    /\ inflight' = inflight \ {req}
    /\ orders' = Put(orders, orderId, req)
    /\ last' = Response("create-order", 200, "", req.userId, "", "", [orderId |-> orderId])
    /\ UNCHANGED <<users, budgets, payments, analytics, saved>>
    /\ UNCHANGED <<server, webhookEnv, nodeEnv, now>>

\* the gateway call throws: the render server answers 500 with a fixed text,
\* the second server of src/budget-tracker-pure-api.js adds error.message
SiblingOrderFailed(req) ==
    /\ server \in {"render", "agent"}
    /\ req \in inflight
    /\ inflight' = inflight \ {req}
    /\ last' = IF server = "render"
               THEN Response("create-order", 500, "Failed to create payment order",
                             req.userId, "", "", NoBody)
               ELSE Response("create-order", 500, "Failed to create order",
                             req.userId, "", "", [details |-> "error.message"])
    /\ UNCHANGED <<users, budgets, payments, analytics, saved, orders>>
    /\ UNCHANGED <<server, webhookEnv, nodeEnv, now>>

\* GET /api/dashboard/:userId of the second server of src/budget-tracker-pure-api.js:
\* user.transactions.sort(...) sorts the stored list itself, newest first,
\* before .slice(0, 10) copies its head; for an inherited name the user found
\* has no transactions and analyzeSpending throws
AgentDashboard(userId) ==
    /\ server = "agent"
    /\ IF ~UserFound(userId)
       THEN Reply(Response("dashboard", 404, "User not found", "", "", "", NoBody))
       ELSE IF userId \notin DOMAIN users
       THEN Reply(Response("dashboard", 500, "Failed to fetch dashboard data", "", "", "",
                           NoBody))
       ELSE LET sorted == SortNewestFirst(users[userId].transactions)
            IN /\ users' = [users EXCEPT ![userId].transactions = sorted]
               /\ last' = Response("dashboard", 200, "", userId, "", "",
                                   [recentTransactions |-> Slice(sorted, Num(0), Num(10))])
               /\ UNCHANGED <<budgets, payments, analytics, saved, orders, inflight>>
    /\ UNCHANGED <<server, webhookEnv, nodeEnv, now>>

\* what razorpay.payments.fetch resolves to: amount in paise, status, method
\* and notes.category of the payment
FetchedPayment(paise, status, category) ==
    [amount |-> paise, status |-> status, method |-> "card", category |-> category]

\* the transaction object literal of verify-payment of the second server
AgentTransaction(req, payment, t) ==
    [id |-> req.paymentId, orderId |-> req.orderId, amount |-> Num(payment.amount),
     category |-> OrDefault(payment.category, "general"), date |-> t,
     status |-> payment.status, method |-> payment.method, userId |-> req.userId]

\* the suspended verify-payment handlers among the suspended handlers
Fetching == {req \in inflight : "paymentId" \in DOMAIN req}

\* the suspended create-order handlers
Ordering == inflight \ Fetching

\* POST /api/verify-payment of the second server of src/budget-tracker-pure-api.js,
\* up to `await razorpay.payments.fetch(razorpay_payment_id)`
AgentVerifyPayment(orderId, paymentId, signature, userId) ==
    /\ server = "agent"
    /\ IF signature # Hmac(RAZORPAY_KEY_SECRET, SignedMessage(orderId, paymentId))
       THEN Reply(Response("verify-payment", 400, "Invalid payment signature",
                           "", paymentId, "", NoBody))
       ELSE /\ Cardinality(inflight) < MaxInflight
            /\ inflight' = inflight \cup
                  {[orderId |-> orderId, paymentId |-> paymentId, userId |-> userId]}
            /\ last' = Response("verify-payment", 0, "", userId, paymentId, "", NoBody)
            /\ UNCHANGED <<users, budgets, payments, analytics, saved, orders>>
    /\ UNCHANGED <<server, webhookEnv, nodeEnv, now>>

\* the gateway answers with the payment: the transaction is pushed to
\* budgetData.transactions, then to budgetData.users[userId].transactions, which
\* throws a TypeError for a userId without user object or transaction list
AgentPaymentFetched(req, payment) ==
    /\ server = "agent"
    /\ req \in Fetching
    /\ Len(payments) < MaxTxns
    /\ LET txn == AgentTransaction(req, payment, now)
       IN /\ inflight' = inflight \ {req}
          /\ payments' = Append(payments, txn)
          /\ IF req.userId \in DOMAIN users
             THEN /\ users' = [users EXCEPT ![req.userId].transactions = Append(@, txn)]
                  /\ last' = Response("verify-payment", 200, "", req.userId, req.paymentId,
                                      "", [transaction |-> txn])
             ELSE /\ users' = users
                  /\ last' = Response("verify-payment", 500, "Payment verification failed",
                                      req.userId, req.paymentId, "",
                                      [details |-> "TypeError"])
          /\ UNCHANGED <<budgets, analytics, saved, orders>>
    /\ UNCHANGED <<server, webhookEnv, nodeEnv, now>>

\* razorpay.payments.fetch rejects: the catch block answers 500
AgentFetchFailed(req) ==
    /\ server = "agent"
    /\ req \in Fetching
    /\ inflight' = inflight \ {req}
    /\ last' = Response("verify-payment", 500, "Payment verification failed",
                        req.userId, req.paymentId, "", [details |-> "error.message"])
    /\ UNCHANGED <<users, budgets, payments, analytics, saved, orders>>
    /\ UNCHANGED <<server, webhookEnv, nodeEnv, now>>

-----------------------------------------------------------------------------
(* The two servers that list transactions, with a clock *)

InitListing ==
    /\ server \in {"api", "pure"}
    /\ webhookEnv = "whsec_1"
    /\ nodeEnv = "production"
    /\ Fresh

\* the query strings of the model: limit, offset, category, status
Query(limit, offset, category, status) ==
    [limit |-> limit, offset |-> offset, category |-> category, status |-> status]

ListingQueries ==
    {Query(l, o, "", "") :
        l \in {AbsentVal, NumVal(0), NumVal(1), NumVal(2)},
        o \in {AbsentVal, NumVal(0), NumVal(1)}}
    \cup {Query(NumVal(1), NumVal(0), c, st) : c \in {"all", "Food"}, st \in {"", "captured"}}
    \cup {Query(AbsentVal, AbsentVal, "Food", "success"),
          Query(AbsentVal, AbsentVal, "Other", "all")}

ListingVerifyRequests ==
    {VerifyRequest("order_1", p, ValidSignature("order_1", p), "u1", NumVal(500000), c) :
        p \in PaymentIds, c \in {"", "Food"}}

NextListing ==
    \/ Tick
    \/ \E r \in ListingVerifyRequests :
          ApiVerifyPayment(r.orderId, r.paymentId, r.signature, r.userId, r.amount, r.category)
    \/ \E r \in ListingVerifyRequests :
          PureVerifyPayment(r.orderId, r.paymentId, r.signature, r.userId, r.amount, r.category)
    \/ \E r \in {w \in WebhookRequests : w.body.event = "payment.captured"} :
          ApiWebhook(r.body, r.signature)
    \/ \E u \in UserIds, q \in ListingQueries :
          ApiGetTransactions(u, q.limit, q.offset, q.category, q.status)
    \/ \E u \in UserIds \cup {""}, q \in ListingQueries :
          PureGetTransactions(u, q.limit, q.offset, q.category, q.status)

SpecListing == InitListing /\ [][NextListing]_vars

-----------------------------------------------------------------------------
(* The two servers that create users and orders *)

InitOrders ==
    /\ server \in {"api", "pure"}
    /\ webhookEnv = "whsec_1"
    /\ nodeEnv = "production"
    /\ Fresh

\* the bodies of POST /api/create-order: amount absent, zero, negative,
\* positive or not a number; userId absent, new, or a name of Object.prototype
OrderRequest(amount, userId, category) ==
    [amount |-> amount, userId |-> userId, category |-> category]

OrderRequests ==
    {OrderRequest(a, u, "") :
        a \in {AbsentVal, NumVal(0), NumVal(0 - 1000), NumVal(500000), StrVal},
        u \in {"", "u1", "u2", "constructor"}}

OrderVerifyRequests ==
    {VerifyRequest("order_1", "pay_1", ValidSignature("order_1", "pay_1"), u, NumVal(500000), "") :
        u \in {"u1", "constructor"}}

NextOrders ==
    \/ \E u \in {"", "u1", "constructor"} : ApiCreateUser(u, AbsentVal)
    \/ \E u \in {"", "u1", "constructor"} : PureCreateUser(u, AbsentVal)
    \/ \E r \in OrderRequests : ApiCreateOrder(r.amount, r.userId, r.category)
    \/ \E r \in OrderRequests : PureCreateOrder(r.amount, r.userId, r.category)
    \/ \E req \in inflight, o \in OrderIds : ApiOrderCreated(req, o)
    \/ \E req \in inflight, o \in OrderIds : PureOrderCreated(req, o)
    \/ \E req \in inflight : ApiOrderFailed(req)
    \/ \E req \in inflight : PureOrderFailed(req)
    \/ \E r \in OrderVerifyRequests :
          ApiVerifyPayment(r.orderId, r.paymentId, r.signature, r.userId, r.amount, r.category)
    \/ \E r \in OrderVerifyRequests :
          PureVerifyPayment(r.orderId, r.paymentId, r.signature, r.userId, r.amount, r.category)

SpecOrders == InitOrders /\ [][NextOrders]_vars

-----------------------------------------------------------------------------
(* The servers that create orders, with a clock *)

InitReceipts ==
    /\ server \in {"api", "pure", "render", "agent"}
    /\ webhookEnv = "whsec_1"
    /\ nodeEnv = "production"
    /\ Fresh

\* a userId of 26 characters
LongUserId == "customer_0123456789_abcdef"

ReceiptRequests ==
    {OrderRequest(a, u, "") : a \in {AbsentVal, NumVal(500000)}, u \in {"u1", LongUserId}}

NextReceipts ==
    \/ Tick
    \/ \E r \in ReceiptRequests : ApiCreateOrder(r.amount, r.userId, r.category)
    \/ \E r \in ReceiptRequests : PureCreateOrder(r.amount, r.userId, r.category)
    \/ \E r \in ReceiptRequests : RenderCreateOrder(r.amount, r.userId, r.category)
    \/ \E r \in ReceiptRequests : AgentCreateOrder(r.amount, r.userId, r.category)
    \/ \E req \in inflight, o \in OrderIds : ApiOrderCreated(req, o)
    \/ \E req \in inflight, o \in OrderIds : PureOrderCreated(req, o)
    \/ \E req \in inflight, o \in OrderIds : SiblingOrderCreated(req, o)
    \/ \E req \in inflight : ApiOrderFailed(req)
    \/ \E req \in inflight : PureOrderFailed(req)
    \/ \E req \in inflight : SiblingOrderFailed(req)

SpecReceipts == InitReceipts /\ [][NextReceipts]_vars

-----------------------------------------------------------------------------
(* The 500 answers of the API server and the pure server, in both modes *)

\* app.use((err, req, res, next) => ...): the handler of errors raised outside
\* the routes' own try blocks, such as a body express.json() cannot parse
ErrorMiddleware ==
    /\ server \in {"api", "pure"}
    /\ Reply(Response("unhandled", 500, "Internal server error", "", "", "",
                      [message |-> IF nodeEnv = "development" THEN "error.message"
                                   ELSE "Something went wrong"]))
    /\ UNCHANGED <<server, webhookEnv, nodeEnv, now>>

InitErrors ==
    /\ server \in {"api", "pure"}
    /\ webhookEnv = "whsec_1"
    /\ nodeEnv \in {"production", "development"}
    /\ Fresh

NextErrors ==
    \/ ErrorMiddleware
    \/ \E r \in OrderRequests : ApiCreateOrder(r.amount, r.userId, r.category)
    \/ \E r \in OrderRequests : PureCreateOrder(r.amount, r.userId, r.category)
    \/ \E req \in inflight, o \in OrderIds : ApiOrderCreated(req, o)
    \/ \E req \in inflight, o \in OrderIds : PureOrderCreated(req, o)
    \/ \E req \in inflight : ApiOrderFailed(req)
    \/ \E req \in inflight : PureOrderFailed(req)

SpecErrors == InitErrors /\ [][NextErrors]_vars

-----------------------------------------------------------------------------
(* The API server's users, verifications and webhooks *)

NextWebhook ==
    \/ \E u \in {"", "u1"} : ApiCreateUser(u, AbsentVal)
    \/ \E r \in VerifyRequests :
          ApiVerifyPayment(r.orderId, r.paymentId, r.signature, r.userId, r.amount, r.category)
    \/ \E r \in WebhookRequests : ApiWebhook(r.body, r.signature)

SpecWebhook == Init /\ [][NextWebhook]_vars

-----------------------------------------------------------------------------
(* The API server with its gateway: orders, payments and their confirmations *)

\* the amounts asked of create-order: 0.29 and 1.005 rupees
PipelineAmounts == {NumVal(290), NumVal(1005)}

\* the confirmation a client sends after paying an order of the gateway: the
\* gateway signs orderId|paymentId; userId and amount are the client's own
Confirmations ==
    {VerifyRequest(o, p, ValidSignature(o, p), u, a, "") :
        o \in DOMAIN orders, p \in PaymentIds, u \in UserIds,
        a \in {NumVal(500000), NumVal(0 - 500000)}}

\* the payment.captured body the gateway sends for a payment of one of its
\* orders: the amount and the notes are those of the order
CapturedDelivery(o, paymentId) ==
    WebhookBody("payment.captured", "payment",
                PaymentEntity(paymentId, o, orders[o].amount.v, orders[o].userId,
                              orders[o].category, NumVal(0)))

NextPipeline ==
    \/ \E a \in PipelineAmounts : ApiCreateOrder(a, "u1", "")
    \/ \E req \in inflight, o \in OrderIds : ApiOrderCreated(req, o)
    \/ \E req \in inflight : ApiOrderFailed(req)
    \/ \E r \in Confirmations :
          ApiVerifyPayment(r.orderId, r.paymentId, r.signature, r.userId, r.amount, r.category)
    \/ \E o \in DOMAIN orders, p \in PaymentIds :
          ApiWebhook(CapturedDelivery(o, p), Hmac(WebhookSecret, CapturedDelivery(o, p)))

SpecPipeline == Init /\ [][NextPipeline]_vars

-----------------------------------------------------------------------------
(* AIBudgetAnalyzer of the API server *)

\* <<quotient, remainder>> of n * 10^digits divided by d, by long division
RECURSIVE ScaledDiv(_, _, _)
ScaledDiv(n, d, digits) ==
    IF digits = 0 THEN <<n \div d, n % d>>
    ELSE LET p == ScaledDiv(n, d, digits - 1)
         IN <<p[1] * 10 + (p[2] * 10) \div d, (p[2] * 10) % d>>

\* ((a / b) * 100).toFixed(2) read back by parseFloat, for b > 0: the percentage
\* rounded to two decimals, counted in hundredths of a percent; toFixed rounds
\* the magnitude, halves up
ToFixed2Percent(a, b) ==
    IF a.nan THEN NaN
    ELSE LET n == IF a.v < 0 THEN 0 - a.v ELSE a.v
             p == ScaledDiv(n, b, 4)
             r == IF 2 * p[2] >= b THEN p[1] + 1 ELSE p[1]
         IN Num(IF a.v < 0 THEN 0 - r ELSE r)

\* the if / else-if chain of analyzeBudget on the parsed percentage
Classify(percentage) ==
    IF ~percentage.nan /\ percentage.v >= 10000
        THEN [status |-> "over_budget", riskLevel |-> "critical"]
    ELSE IF ~percentage.nan /\ percentage.v >= 9000
        THEN [status |-> "critical", riskLevel |-> "high"]
    ELSE IF ~percentage.nan /\ percentage.v >= 7500
        THEN [status |-> "warning", riskLevel |-> "medium"]
    ELSE IF ~percentage.nan /\ percentage.v >= 5000
        THEN [status |-> "moderate", riskLevel |-> "low"]
    ELSE [status |-> "excellent", riskLevel |-> "very_low"]

\* the decimal digits
Digits == "0123456789"

\* the number a key of up to nine digits denotes
RECURSIVE IndexValue(_)
IndexValue(key) ==
    IF key = "" THEN 0
    ELSE LET c == SubSeq(key, Len(key), Len(key))
         IN 10 * IndexValue(SubSeq(key, 1, Len(key) - 1))
            + (CHOOSE d \in 0..9 : SubSeq(Digits, d + 1, d + 1) = c)

\* whether a property key is an array index: a canonical decimal numeral
\* (keys of ten digits or more are not among the categories studied)
IsArrayIndex(key) ==
    /\ Len(key) \in 1..9
    /\ \A i \in 1..Len(key) :
          \E d \in 0..9 : SubSeq(Digits, d + 1, d + 1) = SubSeq(key, i, i)
    /\ Len(key) > 1 => SubSeq(key, 1, 1) # "0"

\* insert e among entries whose keys are array indices, in ascending order
RECURSIVE InsertByIndex(_, _)
InsertByIndex(sorted, e) ==
    IF sorted = <<>> THEN <<e>>
    ELSE IF IndexValue(Head(sorted).category) < IndexValue(e.category)
         THEN <<Head(sorted)>> \o InsertByIndex(Tail(sorted), e)
         ELSE <<e>> \o sorted

RECURSIVE SortByIndex(_)
SortByIndex(entries) ==
    IF entries = <<>> THEN <<>>
    ELSE InsertByIndex(SortByIndex(Tail(entries)), Head(entries))

\* the order in which an object lists its own properties (Object.entries,
\* Object.values, JSON.stringify): array indices first, in ascending order,
\* then the other keys in the order of their creation
OwnProperties(entries) ==
    SortByIndex(SelectSeq(entries, LAMBDA e : IsArrayIndex(e.category)))
    \o SelectSeq(entries, LAMBDA e : ~IsArrayIndex(e.category))

\* categories[category] = (categories[category] || 0) + transaction.amount, over
\* the list: the categories in order of first appearance, with their amounts;
\* for a category named like a property of Object.prototype the first lookup
\* finds the inherited function, and the + makes a string that is no number
RECURSIVE CategoryTotals(_)
CategoryTotals(txns) ==
    IF txns = <<>> THEN <<>>
    ELSE LET before == CategoryTotals(SubSeq(txns, 1, Len(txns) - 1))
             t == txns[Len(txns)]
             cat == OrDefault(t.category, "Other")
         IN IF \E i \in 1..Len(before) : before[i].category = cat
            THEN [i \in 1..Len(before) |->
                     IF before[i].category = cat
                     THEN [before[i] EXCEPT !.amount = Add(@, t.amount)]
                     ELSE before[i]]
            ELSE Append(before,
                        [category |-> cat,
                         amount |-> IF cat \in PrototypeKeys THEN NaN
                                    ELSE Add(Num(0), t.amount)])

\* insert e behind every entry whose amount is not smaller (b - a <= 0 keeps the order)
RECURSIVE InsertByAmount(_, _)
InsertByAmount(sorted, e) ==
    IF sorted = <<>> THEN <<e>>
    ELSE IF Head(sorted).amount.nan \/ e.amount.nan \/ Head(sorted).amount.v >= e.amount.v
         THEN <<Head(sorted)>> \o InsertByAmount(Tail(sorted), e)
         ELSE <<e>> \o sorted

\* Object.entries(categories).sort(([,a], [,b]) => b - a)
RECURSIVE SortByAmount(_)
SortByAmount(entries) ==
    IF entries = <<>> THEN <<>>
    ELSE InsertByAmount(SortByAmount(SubSeq(entries, 1, Len(entries) - 1)),
                        entries[Len(entries)])

RECURSIVE SumAmounts(_)
SumAmounts(entries) ==
    IF entries = <<>> THEN Num(0)
    ELSE Add(SumAmounts(SubSeq(entries, 1, Len(entries) - 1)), entries[Len(entries)].amount)

\* categories.total: the amount of the category named "total", undefined without one
TotalProperty(entries) ==
    IF \E i \in 1..Len(entries) : entries[i].category = "total"
    THEN (CHOOSE e \in {entries[i] : i \in 1..Len(entries)} : e.category = "total").amount
    ELSE NaN

\* AIBudgetAnalyzer.getCategoryBreakdown(transactions): the percentage is
\* computed only when categories.total is truthy, else it is 0
getCategoryBreakdown(txns) ==
    LET categories == OwnProperties(CategoryTotals(txns))
        total == TotalProperty(categories)
        sum == SumAmounts(categories)
        sorted == OwnProperties(SortByAmount(categories))
    IN [i \in 1..Len(sorted) |->
          [category |-> sorted[i].category,
           amount |-> sorted[i].amount,
           percentage |-> IF total.nan \/ total.v = 0 THEN Num(0)
                          ELSE IF sum.nan \/ sum.v <= 0 THEN NaN
                          ELSE ToFixed2Percent(sorted[i].amount, sum.v)]]

\* an analysis whose remaining budget stops at zero
analyzeBudgetClamped(userId) ==
    LET user == IF userId \in DOMAIN users THEN users[userId] ELSE BareUser
        monthly == IF userId \in DOMAIN budgets THEN budgets[userId].monthly
                   ELSE NumVal(DefaultMonthly)
        percentage == IF monthly.kind = "num" /\ monthly.v > 0
                      THEN ToFixed2Percent(user.totalSpent, monthly.v)
                      ELSE Num(0)
    IN [currentSpent |-> user.totalSpent,
        budgetLimit |-> monthly,
        remainingBudget |-> IF monthly.kind = "num" /\ ~user.totalSpent.nan
                            THEN (IF monthly.v < user.totalSpent.v THEN Num(0)
                                  ELSE Num(monthly.v - user.totalSpent.v))
                            ELSE NaN,
        spendingPercentage |-> percentage,
        status |-> Classify(percentage).status,
        riskLevel |-> Classify(percentage).riskLevel,
        categoryBreakdown |-> getCategoryBreakdown(user.transactions)]

\* AIBudgetAnalyzer.analyzeBudget(userId), without monthlyProjection
analyzeBudget(userId) ==
    LET user == IF userId \in DOMAIN users THEN users[userId] ELSE BareUser
        monthly == IF userId \in DOMAIN budgets THEN budgets[userId].monthly
                   ELSE NumVal(DefaultMonthly)
        percentage == IF monthly.kind = "num" /\ monthly.v > 0
                      THEN ToFixed2Percent(user.totalSpent, monthly.v)
                      ELSE Num(0)
    IN [currentSpent |-> user.totalSpent,
        budgetLimit |-> monthly,
        remainingBudget |-> IF monthly.kind = "num" /\ ~user.totalSpent.nan
                            THEN Num(monthly.v - user.totalSpent.v) ELSE NaN,
        spendingPercentage |-> percentage,
        status |-> Classify(percentage).status,
        riskLevel |-> Classify(percentage).riskLevel,
        categoryBreakdown |-> getCategoryBreakdown(user.transactions)]

\* GET /api/dashboard/:userId, without the spending trends
ApiDashboard(userId) ==
    /\ server = "api"
    /\ IF ~UserFound(userId)
       THEN Reply(Response("dashboard", 404, "User not found", "", "", "", NoBody))
       ELSE IF userId \notin DOMAIN users
       THEN Reply(Response("dashboard", 500, "Failed to fetch dashboard data", "", "", "",
                           [details |-> "error.message"]))
       ELSE Reply(Response("dashboard", 200, "", userId, "", "",
                           [budgetAnalysis |-> analyzeBudget(userId)]))
    /\ UNCHANGED <<server, webhookEnv, nodeEnv, now>>

\* the amounts and categories of the payments analysed; "7" is a category
\* known by its number
AnalyzerRequests ==
    {VerifyRequest("order_1", "pay_1", ValidSignature("order_1", "pay_1"), "u1", NumVal(a), c) :
        a \in {0, 1000, 500000, 899000, 999960}, c \in {"", "Food", "total", "7"}}

NextAnalyzer ==
    \/ \E b \in {AbsentVal, NumVal(0)} : ApiCreateUser("u1", b)
    \/ \E r \in AnalyzerRequests :
          ApiVerifyPayment(r.orderId, r.paymentId, r.signature, r.userId, r.amount, r.category)
    \/ ApiSetBudget("u1", NumVal(1000000))
    \/ \E u \in UserIds : ApiDashboard(u)

SpecAnalyzer == Init /\ [][NextAnalyzer]_vars

-----------------------------------------------------------------------------
(* The servers with read operations, with a clock *)

InitReads ==
    /\ server \in {"api", "pure", "agent"}
    /\ webhookEnv = "whsec_1"
    /\ nodeEnv = "production"
    /\ Fresh

\* the payment.captured deliveries for the payments of u1, signed by the gateway
ReadsWebhookRequests ==
    {[body |-> b, signature |-> Hmac(WebhookSecret, b)] :
        b \in {WebhookBody("payment.captured", "payment",
                           PaymentEntity(p, "order_1", 50000, "u1", "", NumVal(0))) :
                  p \in PaymentIds}}

ReadsQueries ==
    {Query(AbsentVal, AbsentVal, "", ""), Query(NumVal(1), NumVal(0), "Food", "")}

NextReads ==
    \/ Tick
    \/ \E r \in ListingVerifyRequests :
          ApiVerifyPayment(r.orderId, r.paymentId, r.signature, r.userId, r.amount, r.category)
    \/ \E r \in ListingVerifyRequests :
          PureVerifyPayment(r.orderId, r.paymentId, r.signature, r.userId, r.amount, r.category)
    \/ AgentCreateOrder(NumVal(500000), "u1", "")
    \/ \E req \in inflight, o \in OrderIds : SiblingOrderCreated(req, o)
    \/ \E req \in inflight : SiblingOrderFailed(req)
    \/ \E r \in ReadsWebhookRequests : AgentWebhook(r.body, r.signature)
    \/ \E u \in UserIds : ApiDashboard(u)
    \/ \E u \in UserIds, q \in ReadsQueries :
          ApiGetTransactions(u, q.limit, q.offset, q.category, q.status)
    \/ \E u \in UserIds, q \in ReadsQueries :
          PureGetTransactions(u, q.limit, q.offset, q.category, q.status)
    \/ \E u \in UserIds : AgentDashboard(u)

SpecReads == InitReads /\ [][NextReads]_vars

-----------------------------------------------------------------------------
(* The second server of src/budget-tracker-pure-api.js with its confirmations *)

InitAgent ==
    /\ server = "agent"
    /\ webhookEnv = "whsec_1"
    /\ nodeEnv = "production"
    /\ Fresh

\* confirmations for the user u1, whom create-order makes, and for u2, whom
\* nothing makes; with the gateway's signature or a guessed one
AgentVerifyRequests ==
    {VerifyRequest("order_1", p, Hmac(key, SignedMessage("order_1", p)), u, AbsentVal, "") :
        p \in PaymentIds, u \in UserIds, key \in {RAZORPAY_KEY_SECRET, "guess"}}

\* the payments the gateway knows
FetchedPayments ==
    {FetchedPayment(50000, "captured", "")}

AgentWebhookRequests ==
    {[body |-> b, signature |-> Hmac(WebhookSecret, b)] :
        b \in {WebhookBody("payment.captured", "payment",
                           PaymentEntity("pay_2", "order_1", 50000, "u1", "", NumVal(0)))}}

NextAgent ==
    \/ AgentCreateOrder(NumVal(500000), "u1", "")
    \/ \E req \in Ordering, o \in OrderIds : SiblingOrderCreated(req, o)
    \/ \E req \in Ordering : SiblingOrderFailed(req)
    \/ \E r \in AgentVerifyRequests :
          AgentVerifyPayment(r.orderId, r.paymentId, r.signature, r.userId)
    \/ \E req \in Fetching, payment \in FetchedPayments : AgentPaymentFetched(req, payment)
    \/ \E req \in Fetching : AgentFetchFailed(req)
    \/ \E r \in AgentWebhookRequests : AgentWebhook(r.body, r.signature)

SpecAgent == InitAgent /\ [][NextAgent]_vars

-----------------------------------------------------------------------------
(* All the servers, each started with or without a webhook secret *)

Servers == {"api", "pure", "render", "legacy", "agent"}

InitServers ==
    /\ server \in Servers
    /\ webhookEnv \in {"", "whsec_1"}
    /\ nodeEnv = "production"
    /\ Fresh

ServerBodies ==
    {WebhookBody("payment.captured", "payment",
                 PaymentEntity("pay_1", "order_1", 50000, u, "", NumVal(0))) : u \in {"", "u1"}}
    \cup {WebhookBody("payment.captured", "none", NoEntity),
          WebhookBody("payment.failed", "payment",
                      PaymentEntity("pay_1", "order_1", 50000, "u1", "", NumVal(0))),
          WebhookBody("order.paid", "order", NoEntity),
          WebhookBody("refund.created", "empty", NoEntity)}

\* the deliveries the servers receive: unsigned, signed with the configured
\* secret, signed with the placeholder 'your_webhook_secret', or with a guess
ServerWebhookRequests ==
    UNION {{[body |-> b, signature |-> NoSig]}
           \cup {[body |-> b, signature |-> Hmac(k, b)] :
                    k \in {"whsec_1", "your_webhook_secret", "guess"}} : b \in ServerBodies}

NextServers ==
    \/ \E u \in {"", "u1"} : ApiCreateUser(u, AbsentVal)
    \/ \E r \in VerifyRequests :
          ApiVerifyPayment(r.orderId, r.paymentId, r.signature, r.userId, r.amount, r.category)
    \/ \E r \in ServerWebhookRequests : ApiWebhook(r.body, r.signature)
    \/ \E r \in VerifyRequests :
          PureVerifyPayment(r.orderId, r.paymentId, r.signature, r.userId, r.amount, r.category)
    \/ \E r \in ServerWebhookRequests : PureWebhook(r.body, r.signature)
    \/ \E u \in {"", "u1"} : RenderCreateUser(u)
    \/ \E r \in VerifyRequests :
          RenderVerifyPayment(r.orderId, r.paymentId, r.signature, r.userId, r.amount, r.category)
    \/ \E r \in ServerWebhookRequests : RenderWebhook(r.body, r.signature)
    \/ \E r \in VerifyRequests :
          LegacyVerifyPayment(r.orderId, r.paymentId, r.signature, r.userId, r.amount, r.category)
    \/ \E r \in ServerWebhookRequests : LegacyWebhook(r.body, r.signature)
    \/ \E r \in ServerWebhookRequests : AgentWebhook(r.body, r.signature)

SpecServers == InitServers /\ [][NextServers]_vars

-----------------------------------------------------------------------------
(* Properties of the API server's ledger, checked under Spec *)

\* the ids of a transaction list, as a sequence
Ids(txns) == [i \in 1..Len(txns) |-> txns[i].id]

\* how often id occurs in a transaction list
Occurrences(txns, id) == Cardinality({i \in 1..Len(txns) : txns[i].id = id})

\* a verify-payment request carrying the gateway's signature for its ids
WellSigned(r) == r.signature = Hmac("key_secret", r.orderId \o "|" \o r.paymentId)

\* C1: a verify-payment request with a valid signature whose payment id was
\* already recorded for that user by an earlier verify-payment leaves the
\* user's totalSpent and the length of the user's transaction list unchanged.
C1_VerifyIdempotent ==
    [][\A r \in (IF last'.op = "verify-payment" THEN VerifyRequests ELSE {}) :
          (/\ WellSigned(r)
           /\ r.userId \in DOMAIN users
           /\ \E i \in 1..Len(users[r.userId].transactions) :
                 /\ users[r.userId].transactions[i].id = r.paymentId
                 /\ users[r.userId].transactions[i].method = "razorpay"
           /\ ApiVerifyPayment(r.orderId, r.paymentId, r.signature, r.userId,
                               r.amount, r.category))
          => /\ users'[r.userId].totalSpent = users[r.userId].totalSpent
             /\ Len(users'[r.userId].transactions) = Len(users[r.userId].transactions)]_vars

\* C2: an authenticated payment.captured webhook whose payment id is already
\* in the transaction list of the user it names changes neither users (so no
\* totalSpent and no transaction list) nor the payments log, and is answered 200.
C2_WebhookReplay ==
    [][\A b \in (IF last'.op = "webhook" THEN WebhookBodies ELSE {}) :
          (/\ b.event = "payment.captured"
           /\ b.shape = "payment"
           /\ b.payment.userId \in DOMAIN users
           /\ \E i \in 1..Len(users[b.payment.userId].transactions) :
                 users[b.payment.userId].transactions[i].id = b.payment.id
           /\ ApiWebhook(b, Hmac(WebhookSecret, b)))
          => /\ users' = users
             /\ payments' = payments
             /\ last'.status = 200]_vars

\* C2 witness: a payment.captured webhook was answered 200 for a payment that
\* verify-payment had recorded for the same user, and the user holds it once.
C2_Witness ==
    /\ last.op = "webhook" /\ last.status = 200 /\ last.event = "payment.captured"
    /\ last.userId \in DOMAIN users
    /\ \E i \in 1..Len(users[last.userId].transactions) :
          /\ users[last.userId].transactions[i].id = last.payId
          /\ users[last.userId].transactions[i].status = "success"
    /\ Occurrences(users[last.userId].transactions, last.payId) = 1

\* C3: no payment id occurs more than once across all users' transaction
\* lists taken together, nor more than once in the global payments log.
C3_UniquePaymentIds ==
    /\ \A u \in DOMAIN users : \A i, j \in 1..Len(users[u].transactions) :
          users[u].transactions[i].id = users[u].transactions[j].id => i = j
    /\ \A u, w \in DOMAIN users : \A i \in 1..Len(users[u].transactions) :
          \A j \in 1..Len(users[w].transactions) :
             users[u].transactions[i].id = users[w].transactions[j].id => u = w
    /\ \A i, j \in 1..Len(payments) : payments[i].id = payments[j].id => i = j

\* the sum of the amounts of the transactions whose status is success or captured
RECURSIVE SumCounted(_)
SumCounted(txns) ==
    IF txns = <<>> THEN Num(0)
    ELSE LET t == txns[Len(txns)]
         IN Add(SumCounted(SubSeq(txns, 1, Len(txns) - 1)),
                IF t.status \in {"success", "captured"} THEN t.amount ELSE Num(0))

C7_AuthenticatedWebhookIs200 ==
    [][\A b \in (IF last'.op = "webhook" THEN WebhookBodies ELSE {}) :
          ApiWebhook(b, Hmac(WebhookSecret, b)) => last'.status = 200]_vars

-----------------------------------------------------------------------------
(* Properties of all the servers, checked under SpecServers *)

\* POST /api/verify-payment (POST /verify-payment) of whichever server runs
VerifyPayment(r) ==
    \/ ApiVerifyPayment(r.orderId, r.paymentId, r.signature, r.userId, r.amount, r.category)
    \/ PureVerifyPayment(r.orderId, r.paymentId, r.signature, r.userId, r.amount, r.category)
    \/ RenderVerifyPayment(r.orderId, r.paymentId, r.signature, r.userId, r.amount, r.category)
    \/ LegacyVerifyPayment(r.orderId, r.paymentId, r.signature, r.userId, r.amount, r.category)

\* the webhook endpoint of whichever server runs
Webhook(r) ==
    \/ ApiWebhook(r.body, r.signature)
    \/ PureWebhook(r.body, r.signature)
    \/ RenderWebhook(r.body, r.signature)
    \/ LegacyWebhook(r.body, r.signature)
    \/ AgentWebhook(r.body, r.signature)

\* C5: a verify-payment request whose signature is not the HMAC-SHA256 of
\* orderId|paymentId under the key secret is answered 400 and changes nothing
\* of the store: users, budgets, payments log, analytics and saved snapshot.
C5_BadSignatureRejected ==
    [][\A r \in (IF last'.op = "verify-payment" THEN VerifyRequests ELSE {}) :
          (~WellSigned(r) /\ VerifyPayment(r))
          => /\ last'.status = 400
             /\ UNCHANGED <<users, budgets, payments, analytics, saved>>]_vars

\* C5 witness: a signature mismatch was answered while the store holds a
\* user with a recorded transaction
C5_Witness ==
    /\ last.op = "verify-payment" /\ last.status = 400
    /\ last.error \in {"Payment verification failed - Invalid signature",
                       "Payment verification failed"}
    /\ TxnCount = 1
    /\ server \in {"api", "pure"}

\* C6: in every server, a webhook request without signature header, with a
\* signature that is not the HMAC of the body under the configured webhook
\* secret, or received while no webhook secret is configured, is answered
\* 400 and processed no further (the store stays as it is).
C6_WebhookFailsClosed ==
    [][\A r \in (IF last'.op = "webhook" THEN ServerWebhookRequests ELSE {}) :
          ((webhookEnv = "" \/ r.signature # Hmac(webhookEnv, r.body)) /\ Webhook(r))
          => /\ last'.status = 400
             /\ UNCHANGED <<users, budgets, payments, analytics, saved>>]_vars

-----------------------------------------------------------------------------
(* Properties of the analyzer, checked under SpecAnalyzer *)

\* the classification by the thresholds on P = 100 * spent / limit itself
ExpectedStatus(spent, limit) ==
    IF spent >= limit THEN [status |-> "over_budget", riskLevel |-> "critical"]
    ELSE IF 10 * spent >= 9 * limit THEN [status |-> "critical", riskLevel |-> "high"]
    ELSE IF 4 * spent >= 3 * limit THEN [status |-> "warning", riskLevel |-> "medium"]
    ELSE IF 2 * spent >= limit THEN [status |-> "moderate", riskLevel |-> "low"]
    ELSE [status |-> "excellent", riskLevel |-> "very_low"]

\* C8: for spent >= 0 and limit > 0 the status and risk level of analyzeBudget
\* are those of the fixed thresholds 100, 90, 75, 50 on P = 100 * spent / limit.
C8_ClassifiesOnPercentage ==
    (last.op = "dashboard" /\ last.status = 200) =>
        LET a == last.body.budgetAnalysis
        IN (~a.currentSpent.nan /\ a.currentSpent.v >= 0
            /\ a.budgetLimit.kind = "num" /\ a.budgetLimit.v > 0)
           => /\ a.status = ExpectedStatus(a.currentSpent.v, a.budgetLimit.v).status
              /\ a.riskLevel = ExpectedStatus(a.currentSpent.v, a.budgetLimit.v).riskLevel

\* the sum of the percentages of a breakdown, in hundredths of a percent
RECURSIVE SumPercentages(_)
SumPercentages(entries) ==
    IF entries = <<>> THEN 0
    ELSE SumPercentages(Tail(entries)) + Head(entries).percentage.v

\* C9: for a non-empty transaction list with a non-zero total amount, every
\* percentage of getCategoryBreakdown is the entry's share of the sum of all
\* amounts, and the percentages add up to 100 within the rounding of the entries.
C9_BreakdownSumsTo100 ==
    (last.op = "dashboard" /\ last.status = 200) =>
        LET bd == last.body.budgetAnalysis.categoryBreakdown
            total == last.body.budgetAnalysis.currentSpent
        IN (bd # <<>> /\ ~total.nan /\ total.v > 0)
           => /\ \A i \in 1..Len(bd) :
                    bd[i].percentage = ToFixed2Percent(bd[i].amount, total.v)
              /\ SumPercentages(bd) >= 10000 - Len(bd)
              /\ SumPercentages(bd) <= 10000 + Len(bd)

-----------------------------------------------------------------------------
(* Properties of the listing, checked under SpecListing *)

GetTransactions(u, q) ==
    \/ ApiGetTransactions(u, q.limit, q.offset, q.category, q.status)
    \/ PureGetTransactions(u, q.limit, q.offset, q.category, q.status)

\* the transactions of u that match q, newest first
Matching(u, q) ==
    SortNewestFirst(FilterBy(FilterBy(users[u].transactions, "category", q.category),
                             "status", q.status))

\* C10: GET /api/transactions/:userId with limit L and offset O returns the
\* matching transactions ranked O+1 through O+L newest first (fewer when the
\* list ends), and hasMore is true exactly when more than O+L transactions match.
C10_Pagination ==
    [][\A u \in UserIds :
        \A q \in (IF last'.op = "transactions" THEN ListingQueries ELSE {}) :
           (/\ q.limit.kind = "num" /\ q.offset.kind = "num"
            /\ u \in DOMAIN users
            /\ GetTransactions(u, q))
           => LET m == Matching(u, q)
                  upto == IF q.offset.v + q.limit.v < Len(m)
                          THEN q.offset.v + q.limit.v ELSE Len(m)
              IN /\ last'.body.transactions = SubSeq(m, q.offset.v + 1, upto)
                 /\ last'.body.hasMore = (Len(m) > q.offset.v + q.limit.v)]_vars

\* the pagination for a limit of at least 1, which both servers honour
PaginationWithPositiveLimit ==
    [][\A u \in UserIds :
        \A q \in (IF last'.op = "transactions" THEN ListingQueries ELSE {}) :
           (/\ q.limit.kind = "num" /\ q.offset.kind = "num" /\ q.limit.v >= 1
            /\ u \in DOMAIN users
            /\ GetTransactions(u, q))
           => LET m == Matching(u, q)
                  upto == IF q.offset.v + q.limit.v < Len(m)
                          THEN q.offset.v + q.limit.v ELSE Len(m)
              IN /\ last'.body.transactions = SubSeq(m, q.offset.v + 1, upto)
                 /\ last'.body.hasMore = (Len(m) > q.offset.v + q.limit.v)]_vars

\* whether the returned list is a selection of the stored one in newest-first
\* order, equal dates in the order of insertion: some strictly placed positions
\* p of the stored list carry the returned transactions
NewestFirstStable(returned, stored) ==
    \E p \in [1..Len(returned) -> 1..Len(stored)] :
       /\ \A i \in 1..Len(returned) : stored[p[i]] = returned[i]
       /\ \A i, j \in 1..Len(returned) :
             i < j => \/ returned[i].date > returned[j].date
                      \/ returned[i].date = returned[j].date /\ p[i] < p[j]

\* t passes the filters of q; a filter is absent ("") or names a value
MatchesLiterally(t, q) ==
    /\ q.category = "" \/ t.category = q.category
    /\ q.status = "" \/ t.status = q.status

\* the same, the value 'all' standing for no filter
MatchesOrAll(t, q) ==
    /\ q.category \in {"", "all"} \/ t.category = q.category
    /\ q.status \in {"", "all"} \/ t.status = q.status

\* C11 as stated: GET /api/transactions/:userId returns only transactions of
\* the user that match the category and status given (no filter for an absent
\* parameter), counts all of them, and orders them newest first, equal
\* timestamps in insertion order.
C11_FilteredNewestFirstLiteral ==
    [][\A u \in UserIds :
        \A q \in (IF last'.op = "transactions" THEN ListingQueries ELSE {}) :
           (u \in DOMAIN users /\ ApiGetTransactions(u, q.limit, q.offset, q.category, q.status))
           => LET stored == users[u].transactions
                  returned == last'.body.transactions
              IN /\ \A i \in 1..Len(returned) : MatchesLiterally(returned[i], q)
                 /\ last'.body.total
                       = Cardinality({i \in 1..Len(stored) : MatchesLiterally(stored[i], q)})
                 /\ NewestFirstStable(returned, stored)]_vars

\* C11 amended: the same with the parameter value 'all' meaning no filter,
\* like an absent parameter.
C11_FilteredNewestFirst ==
    [][\A u \in UserIds :
        \A q \in (IF last'.op = "transactions" THEN ListingQueries ELSE {}) :
           (u \in DOMAIN users /\ ApiGetTransactions(u, q.limit, q.offset, q.category, q.status))
           => LET stored == users[u].transactions
                  returned == last'.body.transactions
              IN /\ \A i \in 1..Len(returned) : MatchesOrAll(returned[i], q)
                 /\ last'.body.total
                       = Cardinality({i \in 1..Len(stored) : MatchesOrAll(stored[i], q)})
                 /\ NewestFirstStable(returned, stored)]_vars

\* C11 witness: a listing of the API server returned two transactions of one
\* timestamp, or kept one transaction and filtered the other out
C11_Witness ==
    /\ server = "api" /\ last.op = "transactions" /\ last.status = 200
    /\ Len(users[last.userId].transactions) = 2
    /\ \/ /\ Len(last.body.transactions) = 2
          /\ last.body.transactions[1].date = last.body.transactions[2].date
          /\ last.body.transactions[1].id # last.body.transactions[2].id
       \/ /\ last.body.total = 1
          /\ last.body.transactions = <<users[last.userId].transactions[2]>>

-----------------------------------------------------------------------------
(* Properties of users and orders, checked under SpecOrders *)

\* POST /api/create-order of whichever server runs, up to the gateway call
CreateOrder(r) ==
    \/ ApiCreateOrder(r.amount, r.userId, r.category)
    \/ PureCreateOrder(r.amount, r.userId, r.category)

\* C12: POST /api/create-order with a missing, zero or negative amount, or
\* with a missing or empty userId, is answered 400 at once: no user is created,
\* no order is requested from the gateway, and the store is unchanged.
C12_InvalidOrderRejected ==
    [][\A r \in (IF last'.op = "create-order" THEN OrderRequests ELSE {}) :
          (/\ \/ r.amount.kind = "absent"
              \/ r.amount.kind = "num" /\ r.amount.v <= 0
              \/ r.userId = ""
           /\ CreateOrder(r))
          => /\ last'.status = 400
             /\ UNCHANGED <<users, budgets, payments, analytics, saved, orders, inflight>>]_vars

\* C12 witness: a create-order was answered 400 by a server that holds a
\* user with a recorded payment and an order of the gateway
C12_Witness ==
    /\ last.op = "create-order" /\ last.status = 400
    /\ orders # <<>>
    /\ TxnCount = 1

\* what C13 asks of an accepted create-order request r of the API server and
\* of the gateway's answer to it
EnsuresUser(r) ==
    /\ (ApiCreateOrder(r.amount, r.userId, r.category) /\ last'.status # 400)
       => /\ r.userId \in DOMAIN users'
          /\ \A u \in DOMAIN users : users'[u] = users[u]
          /\ r.userId \notin DOMAIN users
                => /\ users'[r.userId].transactions = <<>>
                   /\ users'[r.userId].totalSpent = Num(0)
          /\ payments' = payments
    /\ \A req \in inflight : \A o \in OrderIds :
          ApiOrderCreated(req, o) => /\ users' = users
                                     /\ payments' = payments
                                     /\ req.userId \in DOMAIN users

\* C13: a successful POST /api/create-order creates the user when it does not
\* exist yet and leaves an existing user as it is, and neither it nor the
\* gateway's answer appends a transaction or changes a totalSpent or the
\* payments log.
C13_OrderEnsuresUser ==
    [][\A r \in (IF last'.op = "create-order" THEN OrderRequests ELSE {}) :
          EnsuresUser(r)]_vars

\* the same for the user ids that are no property name of Object.prototype
OrderEnsuresOrdinaryUser ==
    [][\A r \in (IF last'.op = "create-order" THEN OrderRequests ELSE {}) :
          r.userId \notin PrototypeKeys /\ (\A q \in inflight : q.userId \notin PrototypeKeys)
             => EnsuresUser(r)]_vars

-----------------------------------------------------------------------------
(* Further properties of verify-payment, checked under SpecServers *)

\* C14: POST /api/verify-payment of the API server and of the pure server is
\* answered 400 and leaves the store unchanged whenever orderId, paymentId,
\* signature, userId or amount is absent.
C14_MissingFieldRejected ==
    [][\A r \in (IF last'.op = "verify-payment" THEN VerifyRequests ELSE {}) :
          (/\ \/ r.orderId = "" \/ r.paymentId = "" \/ r.signature = NoSig
              \/ r.userId = "" \/ r.amount.kind = "absent"
           /\ \/ ApiVerifyPayment(r.orderId, r.paymentId, r.signature, r.userId,
                                  r.amount, r.category)
              \/ PureVerifyPayment(r.orderId, r.paymentId, r.signature, r.userId,
                                   r.amount, r.category))
          => /\ last'.status = 400
             /\ UNCHANGED <<users, budgets, payments, analytics, saved>>]_vars

\* the same without the amount among the required fields
MissingIdOrSignatureRejected ==
    [][\A r \in (IF last'.op = "verify-payment" THEN VerifyRequests ELSE {}) :
          (/\ \/ r.orderId = "" \/ r.paymentId = "" \/ r.signature = NoSig
              \/ r.userId = ""
           /\ \/ ApiVerifyPayment(r.orderId, r.paymentId, r.signature, r.userId,
                                  r.amount, r.category)
              \/ PureVerifyPayment(r.orderId, r.paymentId, r.signature, r.userId,
                                   r.amount, r.category))
          => /\ last'.status = 400
             /\ UNCHANGED <<users, budgets, payments, analytics, saved>>]_vars

\* C15: in every server, whenever verify-payment answers success for a valid
\* signature, a transaction with the payment id, the order id and status
\* success is in the ledger of the given user afterwards, the user having been
\* created when it did not exist.
C15_SuccessMeansRecorded ==
    [][\A r \in (IF last'.op = "verify-payment" THEN VerifyRequests ELSE {}) :
          (WellSigned(r) /\ VerifyPayment(r) /\ last'.status = 200)
          => /\ r.userId \in DOMAIN users'
             /\ \E i \in 1..Len(users'[r.userId].transactions) :
                   /\ users'[r.userId].transactions[i].id = r.paymentId
                   /\ users'[r.userId].transactions[i].orderId = r.orderId
                   /\ users'[r.userId].transactions[i].status = "success"]_vars

\* the same for the servers that create the user on verification
SuccessMeansRecordedWhereCreated ==
    [][\A r \in (IF last'.op = "verify-payment" /\ server # "render"
                 THEN VerifyRequests ELSE {}) :
          (WellSigned(r) /\ VerifyPayment(r) /\ last'.status = 200)
          => /\ r.userId \in DOMAIN users'
             /\ \E i \in 1..Len(users'[r.userId].transactions) :
                   /\ users'[r.userId].transactions[i].id = r.paymentId
                   /\ users'[r.userId].transactions[i].orderId = r.orderId
                   /\ users'[r.userId].transactions[i].status = "success"]_vars

-----------------------------------------------------------------------------
(* Recordings that overlap, checked under SpecListing *)

\* the step appends one transaction with the payment id and the amount to the
\* list of u, keeps what the list held, and grows totalSpent by the amount
RecordsOnTop(u, paymentId, amount) ==
    LET before == IF u \in DOMAIN users THEN users[u] ELSE BareUser
        after == users'[u]
    IN /\ Len(after.transactions) = Len(before.transactions) + 1
       /\ SubSeq(after.transactions, 1, Len(before.transactions)) = before.transactions
       /\ after.transactions[Len(after.transactions)].id = paymentId
       /\ after.transactions[Len(after.transactions)].amount = amount
       /\ after.totalSpent = Add(before.totalSpent, amount)
       /\ \A w \in DOMAIN users \ {u} : users'[w] = users[w]

\* C16: recordings of different payment ids for one user, by verify-payment
\* or by a payment.captured webhook, in whatever order the handlers run, are
\* all reflected: each accepted recording appends its transaction to what the
\* list holds and adds its amount to the total in one step, none undoing another.
C16_RecordingsCompose ==
    [][/\ \A r \in (IF last'.op = "verify-payment" THEN ListingVerifyRequests ELSE {}) :
             (/\ ApiVerifyPayment(r.orderId, r.paymentId, r.signature, r.userId,
                                  r.amount, r.category)
              /\ last'.status = 200)
             => RecordsOnTop(r.userId, r.paymentId, Num(r.amount.v))
       /\ \A b \in (IF last'.op = "webhook" THEN WebhookBodies ELSE {}) :
             (ApiWebhook(b, Hmac(WebhookSecret, b)) /\ users' # users)
             => RecordsOnTop(b.payment.userId, b.payment.id, Num(b.payment.amount * 10))]_vars

\* C16 witness: verify-payment and a payment.captured webhook recorded two
\* different payments for one user, whose total is the sum of both amounts
C16_Witness ==
    \E u \in DOMAIN users :
       /\ Len(users[u].transactions) = 2
       /\ users[u].transactions[1].id # users[u].transactions[2].id
       /\ {users[u].transactions[1].status, users[u].transactions[2].status}
             = {"success", "captured"}
       /\ users[u].totalSpent = Add(users[u].transactions[1].amount,
                                    users[u].transactions[2].amount)
       /\ last.status = 200 /\ last.op \in {"verify-payment", "webhook"}

-----------------------------------------------------------------------------
(* The webhook's frame, checked under SpecWebhook *)

\* C17: an authenticated webhook of the API server changes the store only
\* when the event is payment.captured and the payment carries a userId: a
\* payment.captured without userId and every payment.failed, order.paid or
\* other event leave users (totals and lists) and the payments log unchanged.
C17_WebhookFrame ==
    [][\A b \in (IF last'.op = "webhook" THEN WebhookBodies ELSE {}) :
          (/\ \/ b.event # "payment.captured"
              \/ b.shape # "payment"
              \/ b.payment.userId = ""
           /\ ApiWebhook(b, Hmac(WebhookSecret, b)))
          => /\ users' = users
             /\ payments' = payments
             /\ saved' = saved]_vars

\* C17 witness: a payment.failed delivery naming a user with a recorded
\* payment was authenticated and answered
C17_Witness ==
    /\ last.op = "webhook" /\ last.status = 200 /\ last.event = "payment.failed"
    /\ last.userId \in DOMAIN users
    /\ users[last.userId].transactions # <<>>

CreateUserIds == {"", "u1", "u2", "constructor"}

\* POST /api/users of whichever server runs
CreateUser(u) ==
    \/ ApiCreateUser(u, AbsentVal)
    \/ PureCreateUser(u, AbsentVal)

\* C18: POST /api/users for a userId that exists, created explicitly or on
\* the way by create-order, is answered 409 and leaves the user, the budgets
\* and the analytics counters unchanged; without userId it is answered 400
\* and creates nothing.
C18_DuplicateUserRejected ==
    [][\A u \in (IF last'.op = "users" THEN CreateUserIds ELSE {}) :
          /\ (u \in DOMAIN users /\ CreateUser(u))
             => /\ last'.status = 409
                /\ UNCHANGED <<users, budgets, payments, analytics, saved>>
          /\ (u = "" /\ CreateUser(u))
             => /\ last'.status = 400
                /\ UNCHANGED <<users, budgets, payments, analytics, saved>>]_vars

\* C18 witness: POST /api/users was answered 409 for a user that a
\* create-order of the API server had created on the way
C18_Witness ==
    /\ server = "api" /\ last.op = "users" /\ last.status = 409
    /\ last.userId \in DOMAIN users
    /\ users[last.userId].lastActive = <<>>
    /\ last.userId \notin DOMAIN budgets

-----------------------------------------------------------------------------
(* The receipts sent to the gateway, checked under SpecReceipts *)

\* the longest receipt the gateway accepts
ReceiptCap == 40

\* C19: in every server the receipt that create-order sends to the gateway
\* is at most 40 characters long, for every userId and every timestamp.
C19_ReceiptFits ==
    /\ \A req \in inflight : Len(req.receipt) <= ReceiptCap
    /\ \A o \in DOMAIN orders : Len(orders[o].receipt) <= ReceiptCap

\* the same for the API server and the pure server, which cut the userId
\* and the timestamp
TruncatedReceiptFits ==
    server \in {"api", "pure"} =>
        /\ \A req \in inflight : Len(req.receipt) <= 24
        /\ \A o \in DOMAIN orders : Len(orders[o].receipt) <= 24

-----------------------------------------------------------------------------
(* What a 500 answer discloses, checked under SpecErrors *)

\* the response carries the message of the error that was caught
Discloses(r) ==
    \E f \in {"details", "message"} :
        /\ r.body # NoBody
        /\ f \in DOMAIN r.body
        /\ r.body[f] = "error.message"

\* C20: outside development mode no 500 answer carries the message of the
\* underlying error; in particular the exception of the gateway call of
\* create-order is never passed to the client.
C20_NoDisclosureInProduction ==
    (last.status = 500 /\ nodeEnv # "development") => ~Discloses(last)

\* the error middleware alone follows the mode
MiddlewareFollowsMode ==
    last.op = "unhandled" => (Discloses(last) <=> nodeEnv = "development")

-----------------------------------------------------------------------------
(* The life of a payment, checked under SpecWebhook *)

\* some user's transaction list holds a transaction with this payment id
InLedger(paymentId) ==
    \E u \in DOMAIN users : HasTransaction(users[u].transactions, paymentId)

\* the request handled last was a confirmation of this payment, refused for
\* its signature
RejectedForSignature(paymentId) ==
    /\ last.op = "verify-payment" /\ last.status = 400
    /\ last.error = "Payment verification failed - Invalid signature"
    /\ last.payId = paymentId

\* C21: Rejected is terminal: once a confirmation of a payment id has been
\* refused for a signature mismatch, no later request makes a transaction with
\* that payment id appear in a ledger; in particular the request handled
\* right after the refusal does not.
C21_RejectedIsTerminal ==
    [][\A p \in PaymentIds :
          (RejectedForSignature(p) /\ ~InLedger(p)) => ~InLedger(p)']_vars

\* the refusal itself records nothing
RejectionRecordsNothing ==
    [][\A p \in PaymentIds : RejectedForSignature(p)' => users' = users]_vars

-----------------------------------------------------------------------------
(* Orders and recordings, checked under SpecPipeline *)

\* C22: Created precedes Recorded: a transaction recorded by verify-payment
\* carries the id of an order that create-order of this server obtained
\* earlier, and it is in the list of the user that order was created for.
C22_RecordedForOrderedUser ==
    \A u \in DOMAIN users : \A i \in 1..Len(users[u].transactions) :
        LET t == users[u].transactions[i]
        IN t.status = "success"
              => /\ t.orderId \in DOMAIN orders
                 /\ orders[t.orderId].userId = u

\* the first half alone, the gateway signing the payments of its orders only
RecordedOrderWasCreated ==
    \A u \in DOMAIN users : \A i \in 1..Len(users[u].transactions) :
        users[u].transactions[i].orderId \in DOMAIN orders

-----------------------------------------------------------------------------
(* The category breakdown, checked under SpecAnalyzer *)

\* the sum of the amounts of the transactions of one category
CategorySum(txns, cat) ==
    SumAmounts(SelectSeq(txns, LAMBDA t : OrDefault(t.category, "Other") = cat))

\* the breakdown bd lists the categories of txns once each, with the sum of
\* their amounts, in descending order of amount
IsBreakdownOf(bd, txns) ==
    /\ \A i, j \in 1..Len(bd) : bd[i].category = bd[j].category => i = j
    /\ {bd[i].category : i \in 1..Len(bd)}
          = {OrDefault(txns[k].category, "Other") : k \in 1..Len(txns)}
    /\ \A i \in 1..Len(bd) : bd[i].amount = CategorySum(txns, bd[i].category)
    /\ \A i, j \in 1..Len(bd) : i < j => bd[i].amount.v >= bd[j].amount.v

\* C23: getCategoryBreakdown returns one entry per distinct category (a
\* transaction without category counts under "Other"), each with the sum of
\* the amounts of its transactions, listed in descending order of amount.
C23_BreakdownSortedByAmount ==
    (last.op = "dashboard" /\ last.status = 200) =>
        IsBreakdownOf(last.body.budgetAnalysis.categoryBreakdown,
                      users[last.userId].transactions)

\* the same for the lists without a category that is an array index
NamedCategoriesSortedByAmount ==
    (/\ last.op = "dashboard" /\ last.status = 200
     /\ \A k \in 1..Len(users[last.userId].transactions) :
           ~IsArrayIndex(users[last.userId].transactions[k].category))
    => IsBreakdownOf(last.body.budgetAnalysis.categoryBreakdown,
                     users[last.userId].transactions)

-----------------------------------------------------------------------------
(* The units of an amount, checked under SpecPipeline *)

\* an amount of at most two decimals: a whole number of paise
TwoDecimals(a) == a.kind = "num" /\ a.v % 10 = 0

\* C24: amount units round-trip: for an amount of at most two decimals
\* create-order sends the gateway that amount in paise, and a payment.captured
\* webhook for a payment of the order records a transaction of status
\* captured whose amount, the one added to totalSpent, is the paise of the
\* order divided by 100: the amount given to create-order.
C24_AmountRoundTrip ==
    [][/\ \A a \in (IF last'.op = "create-order" THEN PipelineAmounts ELSE {}) :
             (TwoDecimals(a) /\ ApiCreateOrder(a, "u1", ""))
             => \E req \in inflight' :
                   /\ inflight' = inflight \cup {req}
                   /\ req.userId = "u1"
                   /\ req.amount = Num(a.v \div 10)
       /\ \A o \in (IF last'.op = "webhook" THEN DOMAIN orders ELSE {}) :
          \A p \in PaymentIds :
             (/\ ApiWebhook(CapturedDelivery(o, p), Hmac(WebhookSecret, CapturedDelivery(o, p)))
              /\ users' # users)
             => LET u == orders[o].userId
                    t == users'[u].transactions[Len(users'[u].transactions)]
                IN /\ t.id = p
                   /\ t.status = "captured"
                   /\ t.amount = Num(orders[o].amount.v * 10)
                   /\ users'[u].totalSpent = Add(users[u].totalSpent, t.amount)]_vars

\* C24 witness: the webhook recorded the payment of an order of 0.29 rupees,
\* 29 paise at the gateway, as a captured transaction of 0.29 rupees
C24_Witness ==
    /\ last.op = "webhook" /\ last.status = 200
    /\ "order_1" \in DOMAIN orders /\ orders["order_1"].amount = Num(29)
    /\ LET u == orders["order_1"].userId
       IN /\ users[u].transactions # <<>>
          /\ users[u].transactions[Len(users[u].transactions)].status = "captured"
          /\ users[u].transactions[Len(users[u].transactions)].amount = Num(290)
          /\ users[u].transactions[Len(users[u].transactions)].id = last.payId
          /\ users[u].totalSpent = Num(290)

-----------------------------------------------------------------------------
(* The sign of the amounts, checked under SpecPipeline *)

\* a JavaScript number that is strictly positive
Positive(x) == ~x.nan /\ x.v > 0

\* C25: every transaction in a ledger has a strictly positive amount, so that
\* no step makes the totalSpent of a user smaller, whatever amount a
\* verify-payment request carries.
C25_SpendingOnlyGrows ==
    [][/\ \A u \in DOMAIN users' : \A i \in 1..Len(users'[u].transactions) :
             Positive(users'[u].transactions[i].amount)
       /\ \A u \in DOMAIN users :
             /\ ~users'[u].totalSpent.nan
             /\ users'[u].totalSpent.v >= users[u].totalSpent.v]_vars

\* the amounts the webhook records, those of the orders, are positive
CapturedAmountsPositive ==
    \A u \in DOMAIN users : \A i \in 1..Len(users[u].transactions) :
        users[u].transactions[i].status = "captured"
           => Positive(users[u].transactions[i].amount)

-----------------------------------------------------------------------------
(* The order of a transaction list, checked under SpecListing *)

\* C26: a user's transaction list is in chronological order in every
\* reachable state: of two transactions of one user the one inserted later
\* has a timestamp that is not earlier, however verifications and
\* payment.captured webhooks interleave.
C26_ListIsChronological ==
    \A u \in DOMAIN users : \A i, j \in 1..Len(users[u].transactions) :
        i < j => users[u].transactions[i].date <= users[u].transactions[j].date

\* the transactions recorded by verify-payment alone are in chronological order
VerifiedAreChronological ==
    \A u \in DOMAIN users : \A i, j \in 1..Len(users[u].transactions) :
        (/\ i < j
         /\ users[u].transactions[i].status = "success"
         /\ users[u].transactions[j].status = "success")
        => users[u].transactions[i].date <= users[u].transactions[j].date

-----------------------------------------------------------------------------
(* lastActive, checked under SpecListing *)

\* the step appends to the transaction list of u
Appends(u) ==
    Len(users'[u].transactions)
       > (IF u \in DOMAIN users THEN Len(users[u].transactions) ELSE 0)

\* C27: every applied recording, client-verified or delivered by webhook,
\* updates the user's lastActive to the moment of the recording, so that
\* lastActive is never earlier than the moment the most recently inserted
\* transaction was recorded.
C27_RecordingTouchesLastActive ==
    [][\A u \in DOMAIN users' : Appends(u) => users'[u].lastActive = <<now>>]_vars

\* the recordings of verify-payment do so
VerifiedTouchesLastActive ==
    [][\A u \in DOMAIN users' :
          (Appends(u) /\ last'.op = "verify-payment") => users'[u].lastActive = <<now>>]_vars

-----------------------------------------------------------------------------
(* The monthly limits, checked under SpecAnalyzer *)

\* C28: every stored budget has a monthly limit that is a positive number,
\* after any sequence of POST /api/users (with any initialBudget),
\* create-order and POST /api/set-budget requests.
C28_MonthlyLimitPositive ==
    \A u \in DOMAIN budgets :
        budgets[u].monthly.kind = "num" /\ budgets[u].monthly.v > 0

\* the limits stored by set-budget are no numbers below or at zero
SetBudgetLimitNotBelowZero ==
    [][(last'.op = "set-budget" /\ last'.status = 200)
          => ~LeqZero(budgets'[last'.userId].monthly)]_vars

-----------------------------------------------------------------------------
(* The budget analysis, checked under SpecAnalyzer *)

-----------------------------------------------------------------------------
(* The read operations, checked under SpecReads *)

\* C30: in every server the read operations (analysis, dashboard, listing of
\* transactions) have no side effect on the ledger: after any of them every
\* user's totalSpent and transaction list, the order of its elements
\* included, is as before.
C30_ReadsKeepLedger ==
    [][last'.op \in {"dashboard", "transactions"} => users' = users]_vars

\* the same for the API server and the pure server, whose listing sorts a copy
ReadsOfCopiesKeepLedger ==
    [][(server \in {"api", "pure"} /\ last'.op \in {"dashboard", "transactions"})
          => users' = users]_vars

-----------------------------------------------------------------------------
(* The persisted snapshot, checked under Spec *)

\* C31: the persisted snapshot follows the in-memory store: once every
\* request that changed the store (user creation, auto-creation of a user by
\* create-order, verify-payment, webhook recording, set-budget) has completed,
\* the last snapshot written by saveData equals the whole current store.
C31_SnapshotFollowsStore == inflight = {} => saved = Store

\* the handlers that call saveData write the store as they leave it
SavingHandlersSnapshot ==
    [][(last'.op \in {"users", "verify-payment", "webhook", "set-budget"}
           /\ StoreAfter # Store)
          => saved' = StoreAfter]_vars

-----------------------------------------------------------------------------
(* The separation of the users, checked under Spec *)

\* user b with its total, its transaction list and its budget
Account(us, bs, b) ==
    [known |-> b \in DOMAIN us,
     totalSpent |-> IF b \in DOMAIN us THEN <<us[b].totalSpent>> ELSE <<>>,
     transactions |-> IF b \in DOMAIN us THEN us[b].transactions ELSE <<>>,
     budget |-> IF b \in DOMAIN bs THEN <<bs[b]>> ELSE <<>>]

\* C32: operations of one user never change another user: a create-order,
\* verify-payment, webhook or set-budget request that names user A leaves
\* totalSpent, the transaction list and the budget of every other user B as
\* they were.
C32_OtherUsersUntouched ==
    [][last'.op \in {"create-order", "verify-payment", "webhook", "set-budget"}
          => \A b \in (DOMAIN users \cup DOMAIN budgets
                         \cup DOMAIN users' \cup DOMAIN budgets') \ {last'.userId} :
                Account(users', budgets', b) = Account(users, budgets, b)]_vars

\* C32 witness: a payment of u1 was recorded or a budget of u1 was set while
\* u2 holds a transaction
C32_Witness ==
    /\ last.op \in {"verify-payment", "webhook", "set-budget"}
    /\ last.status = 200 /\ last.userId = "u1"
    /\ "u1" \in DOMAIN users \cup DOMAIN budgets
    /\ "u2" \in DOMAIN users /\ users["u2"].transactions # <<>>

-----------------------------------------------------------------------------
(* The amount of a verified payment, checked under SpecPipeline *)

\* the total of user u before it exists is that of the object verify-payment
\* starts from
TotalOf(us, u) == IF u \in DOMAIN us THEN us[u].totalSpent ELSE Num(0)

\* C33: the amount that verify-payment adds to a user's totalSpent for a
\* verified payment is the amount of the order that was created for its
\* orderId, for the user of that order, whatever amount, category and userId
\* the client sent: two confirmations with the same valid (orderId, paymentId,
\* signature) have the same effect on the ledger.
C33_AddsTheOrderAmount ==
    [][(last'.op = "verify-payment" /\ last'.status = 200)
          => LET txn == last'.body.transaction
             IN /\ txn.orderId \in DOMAIN orders
                /\ last'.userId = orders[txn.orderId].userId
                /\ txn.amount = Num(orders[txn.orderId].amount.v * 10)
                /\ TotalOf(users', last'.userId)
                      = Add(TotalOf(users, last'.userId),
                            Num(orders[txn.orderId].amount.v * 10))]_vars

\* what verify-payment adds to the total is the amount of the transaction it
\* returns
AddsTheReturnedAmount ==
    [][(last'.op = "verify-payment" /\ last'.status = 200)
          => TotalOf(users', last'.userId)
                = Add(TotalOf(users, last'.userId), last'.body.transaction.amount)]_vars

-----------------------------------------------------------------------------
(* The payments log and the users' lists, checked under Spec *)

\* the payments log holds an entry for the transaction txn of user u
Logged(u, txn) ==
    \E j \in 1..Len(payments) :
        /\ payments[j].id = txn.id
        /\ payments[j].amount = txn.amount
        /\ payments[j].userId = u

\* the list of its user holds the transaction of the log entry
Listed(entry) ==
    /\ entry.userId \in DOMAIN users
    /\ \E i \in 1..Len(users[entry.userId].transactions) :
          /\ users[entry.userId].transactions[i].id = entry.id
          /\ users[entry.userId].transactions[i].amount = entry.amount

\* C34: the global payments log and the per-user lists of the API server hold
\* the same records in every reachable state: a transaction is in the list of
\* user U exactly when the log holds an entry with the same id and amount and
\* userId = U.
C34_LogMatchesLists ==
    /\ \A u \in DOMAIN users :
          \A i \in 1..Len(users[u].transactions) : Logged(u, users[u].transactions[i])
    /\ \A j \in 1..Len(payments) : Listed(payments[j])

\* C34 witness: the log holds a payment recorded by verify-payment and one
\* recorded by the webhook, of two users
C34_Witness ==
    /\ Len(payments) = 2
    /\ payments[1].userId # payments[2].userId
    /\ {payments[1].method, payments[2].method} = {"razorpay", "razorpay_webhook"}

-----------------------------------------------------------------------------
(* The counters of analytics, checked under Spec *)

\* C35: in every reachable state analytics.totalTransactions equals the
\* number of entries of the payments log and analytics.totalAmount equals the
\* sum of their amounts, for transactions recorded by verify-payment and by
\* the webhook alike.
C35_AnalyticsCountTheLog ==
    /\ analytics.totalTransactions = Len(payments)
    /\ analytics.totalAmount = SumAmounts(payments)

\* the entries of the log that verify-payment recorded
VerifiedEntries == SelectSeq(payments, LAMBDA e : e.method = "razorpay")

\* the counters count the payments that verify-payment recorded
AnalyticsCountTheVerified ==
    /\ analytics.totalTransactions = Len(VerifiedEntries)
    /\ analytics.totalAmount = SumAmounts(VerifiedEntries)

-----------------------------------------------------------------------------
(* The counter of users, checked under SpecOrders *)

\* C36: in every reachable state analytics.totalUsers equals the number of
\* users in the store, whether a user was created by POST /api/users,
\* auto-created by create-order or created by verify-payment.
C36_TotalUsersCountsTheStore == analytics.totalUsers = Cardinality(DOMAIN users)

\* POST /api/users counts the user it creates
CreatedUsersAreCounted ==
    [][(last'.op = "users" /\ last'.status = 200)
          => /\ analytics'.totalUsers = analytics.totalUsers + 1
             /\ Cardinality(DOMAIN users') = Cardinality(DOMAIN users) + 1]_vars

-----------------------------------------------------------------------------
(* The failing gateway, checked under SpecOrders *)

\* C37: a create-order request that fails because the gateway call fails ends
\* in a 5xx response and leaves the store as it was before the request: no
\* user has been created and no transaction or total has changed.  The gateway
\* can fail for every request that reaches the call, so the request leaves
\* the store alone exactly when neither the part of the handler up to the
\* call nor the catch block changes it.
C37_FailedOrderLeavesStore ==
    [][/\ \A req \in inflight' \ inflight : StoreAfter = Store
       /\ \A req \in inflight \ inflight' :
             last'.status # 200
                => last'.status \in 500..599 /\ StoreAfter = Store]_vars

\* the catch block answers 500 and changes nothing itself
CatchBlockLeavesStore ==
    [][\A req \in inflight \ inflight' :
          last'.status # 200 => last'.status = 500 /\ StoreAfter = Store]_vars

-----------------------------------------------------------------------------
(* The failing confirmations of the second server, checked under SpecAgent *)

\* every transaction of the global list is in the list of its user, and every
\* transaction of a user's list is in the global list
ListsAgree(us, log) ==
    /\ \A j \in 1..Len(log) :
          log[j].userId \in DOMAIN us
          /\ \E i \in 1..Len(us[log[j].userId].transactions) :
                us[log[j].userId].transactions[i] = log[j]
    /\ \A u \in DOMAIN us : \A i \in 1..Len(us[u].transactions) :
          \E j \in 1..Len(log) : log[j] = us[u].transactions[i]

\* C38: in the second server of src/budget-tracker-pure-api.js a
\* verify-payment request that ends in a 500 response (a valid signature for
\* a userId that was never created, a failing payments.fetch) leaves the
\* store unchanged: the global transaction list and every user's list are as
\* before the request, and a transaction is in the global list exactly when
\* it is in the list of its user.
C38_FailedVerifyLeavesStore ==
    [][(last'.op = "verify-payment" /\ last'.status = 500)
          => /\ payments' = payments
             /\ users' = users
             /\ ListsAgree(users, payments) => ListsAgree(users', payments')]_vars

\* a confirmation refused for its signature or failing in payments.fetch
\* leaves both lists as they were
RefusedOrUnfetchedLeavesStore ==
    [][(last'.op = "verify-payment" /\ last'.status \in {400, 500}
           /\ last'.body # [details |-> "TypeError"])
          => payments' = payments /\ users' = users]_vars

====
